---- MODULE Spec2Model ----
(***************************************************************************)
(* Model of the nimbus HTTP router: the per-method radix tree (tree.go),   *)
(* the middleware chain compiler (middleware.go) and the router that owns  *)
(* the atomically published, copy-on-write routing table.                  *)
(*                                                                         *)
(* Strings are sequences of one-character strings, so that prefix, index   *)
(* and slicing operations are computed as the Go code computes them.       *)
(* Tree nodes live in a heap (a sequence of node records, a node's address *)
(* being its index, 0 being nil), so that in-place mutation of a node that *)
(* an older table still reaches is observable.                             *)
(***************************************************************************)
EXTENDS Integers, Sequences, FiniteSets, TLC

(***************************************************************************)
(* String helpers (package strings, Go slicing)                            *)
(***************************************************************************)

\* s[from:] with a 0-based Go index
Drop(s, from) == SubSeq(s, from + 1, Len(s))

\* s[:to] with a 0-based Go index
Take(s, to) == SubSeq(s, 1, to)

\* strings.TrimPrefix(path, "/")
TrimPrefix(path) == IF Len(path) > 0 /\ path[1] = "/" THEN Drop(path, 1) ELSE path

\* strings.IndexByte(path, '/'): 0-based index of the first '/', -1 if none
IndexByte(path) ==
    IF \E i \in 1..Len(path) : path[i] = "/"
    THEN (CHOOSE i \in 1..Len(path) : path[i] = "/" /\ \A j \in 1..(i - 1) : path[j] # "/") - 1
    ELSE -1

\* strings.HasPrefix(s, prefix)
HasPrefix(s, prefix) == Len(s) >= Len(prefix) /\ Take(s, Len(prefix)) = prefix

\* the first segment of a path whose leading slash has been removed
SegmentOf(p) == IF IndexByte(p) = -1 THEN p ELSE Take(p, IndexByte(p))

\* what follows the first segment (empty, or starting with '/')
RemainingOf(p) == IF IndexByte(p) = -1 THEN <<>> ELSE Drop(p, IndexByte(p))

Min(a, b) == IF a < b THEN a ELSE b

\* longestCommonPrefix(a, b): the loop returns the first index where a and b
\* differ, or min(len(a), len(b))
longestCommonPrefix(a, b) ==
    LET max == Min(Len(a), Len(b))
        diff == {i \in 1..max : a[i] # b[i]}
    IN IF diff = {} THEN max
       ELSE (CHOOSE i \in diff : \A j \in diff : i <= j) - 1

(***************************************************************************)
(* The node heap                                                           *)
(***************************************************************************)

\* nodeType constants
static == "static"
param == "param"
wildcard == "wildcard"

\* a node record; route 0 is a nil *Route, paramChild 0 is a nil *node
Node(t, l, p, k) ==
    [nType |-> t, label |-> l, prefix |-> p, paramKey |-> k,
     route |-> 0, children |-> <<>>, paramChild |-> 0]

\* the heap: the allocated nodes, and whether an insertion has faulted
\* (an index out of range panic)
EmptyHeap == [nodes |-> <<>>, fault |-> FALSE]

\* allocate a node: its address is Len(h.nodes) + 1
Alloc(h, nd) == [h EXCEPT !.nodes = Append(h.nodes, nd)]

\* newTree(): a static root node without prefix
newTree(h) == Alloc(h, Node(static, "", <<>>, <<>>))

(***************************************************************************)
(* node.search                                                             *)
(***************************************************************************)

\* the parameter map, as its set of <<key, value>> entries; allocated is
\* FALSE for a nil map
NilParams == [allocated |-> FALSE, map |-> {}]

\* (*params)[key] = value, allocating the map when it is nil
Bind(params, key, value) ==
    [allocated |-> TRUE,
     map |-> {kv \in params.map : kv[1] # key} \cup {<<key, value>>}]

\* a child lookup that also takes a child whose prefix starts with '*' for
\* any segment
SearchChildWildcard(nodes, n, segment) ==
    LET ch == nodes[n].children
        hit == {i \in 1..Len(ch) :
                  \/ HasPrefix(segment, nodes[ch[i]].prefix)
                  \/ (nodes[ch[i]].prefix # <<>> /\ nodes[ch[i]].prefix[1] = "*")}
    IN IF hit = {} THEN 0 ELSE ch[CHOOSE i \in hit : \A j \in hit : i <= j]

\* the first static child of n, in slice order, whose prefix is a prefix of
\* the segment (0 if none)
SearchChild(nodes, n, segment) ==
    LET ch == nodes[n].children
        hit == {i \in 1..Len(ch) :
                  nodes[ch[i]].nType = static /\ HasPrefix(segment, nodes[ch[i]].prefix)}
    IN IF hit = {} THEN 0 ELSE ch[CHOOSE i \in hit : \A j \in hit : i <= j]

RECURSIVE nodeSearch(_, _, _, _)
nodeSearch(nodes, n, path, params) ==
    IF path = <<"/">> \/ path = <<>>
    THEN [route |-> nodes[n].route, params |-> params]
    ELSE LET p == TrimPrefix(path)
             segment == SegmentOf(p)
             remaining == RemainingOf(p)
             child == SearchChild(nodes, n, segment)
             pc == nodes[n].paramChild
         IN IF child # 0
            THEN IF Len(segment) = Len(nodes[child].prefix)
                 THEN IF remaining = <<>>
                      THEN [route |-> nodes[child].route, params |-> params]
                      ELSE nodeSearch(nodes, child, remaining, params)
                 ELSE nodeSearch(nodes, child,
                         <<"/">> \o Drop(segment, Len(nodes[child].prefix)) \o remaining,
                         params)
            ELSE IF pc # 0
                 THEN LET bound == Bind(params, nodes[pc].paramKey, segment)
                      IN IF remaining = <<>>
                         THEN [route |-> nodes[pc].route, params |-> bound]
                         ELSE nodeSearch(nodes, pc, remaining, bound)
                 ELSE [route |-> 0, params |-> params]

\* tree.search that allocates the parameter map before searching and
\* returns it whatever the search finds
treeSearchEager(nodes, root, path) ==
    nodeSearch(nodes, root, IF path = <<>> THEN <<"/">> ELSE path,
               [allocated |-> TRUE, map |-> {}])

\* tree.search: a nil route comes with a nil map
treeSearch(nodes, root, path) ==
    LET r == nodeSearch(nodes, root, IF path = <<>> THEN <<"/">> ELSE path, NilParams)
    IN IF r.route = 0 THEN [route |-> 0, params |-> NilParams] ELSE r

(***************************************************************************)
(* node.insert (in place)                                                  *)
(***************************************************************************)

SetRoute(h, n, route) == [h EXCEPT !.nodes[n].route = route]

\* the first static child of n whose whole prefix is a prefix of the segment:
\* a child that shares less is passed over instead of being split
InsertChildWhole(nodes, n, segment) ==
    LET ch == nodes[n].children
        hit == {i \in 1..Len(ch) :
                  nodes[ch[i]].nType = static
                  /\ longestCommonPrefix(segment, nodes[ch[i]].prefix)
                        = Len(nodes[ch[i]].prefix)}
    IN IF hit = {} THEN 0 ELSE ch[CHOOSE i \in hit : \A j \in hit : i <= j]

\* the first static child of n, in slice order, that shares a non-empty
\* prefix with the segment (0 if none)
InsertChild(nodes, n, segment) ==
    LET ch == nodes[n].children
        hit == {i \in 1..Len(ch) :
                  nodes[ch[i]].nType = static
                  /\ longestCommonPrefix(segment, nodes[ch[i]].prefix) # 0}
    IN IF hit = {} THEN 0 ELSE ch[CHOOSE i \in hit : \A j \in hit : i <= j]

\* n.children[i] = splitNode for the i with n.children[i] == child
ReplaceChild(children, child, splitNode) ==
    [i \in 1..Len(children) |-> IF children[i] = child THEN splitNode ELSE children[i]]

RECURSIVE nodeInsert(_, _, _, _)
nodeInsert(h, n, path, route) ==
    IF h.fault THEN h
    ELSE IF path = <<"/">> THEN SetRoute(h, n, route)
    ELSE
    LET p == TrimPrefix(path)
        segment == SegmentOf(p)
        remaining == RemainingOf(p)
        isParam == Len(segment) > 0 /\ segment[1] = ":"
        child == InsertChild(h.nodes, n, segment)
    IN
    IF isParam
    THEN \* the parameter child is created only when there is none: an
         \* existing one keeps its paramKey
         LET h1 == IF h.nodes[n].paramChild = 0
                   THEN [Alloc(h, Node(param, "", segment, Drop(segment, 1)))
                           EXCEPT !.nodes[n].paramChild = Len(h.nodes) + 1]
                   ELSE h
             pc == h1.nodes[n].paramChild
         IN IF remaining = <<>> THEN SetRoute(h1, pc, route)
            ELSE nodeInsert(h1, pc, remaining, route)
    ELSE IF child # 0
    THEN LET cp == h.nodes[child].prefix
             commonLen == longestCommonPrefix(segment, cp)
         IN IF commonLen = Len(cp)
            THEN IF commonLen = Len(segment)
                 THEN IF remaining = <<>> THEN SetRoute(h, child, route)
                      ELSE nodeInsert(h, child, remaining, route)
                 ELSE nodeInsert(h, child,
                         <<"/">> \o Drop(segment, commonLen) \o remaining, route)
            ELSE \* split the existing child
                 LET splitNode == Len(h.nodes) + 1
                     h1 == Alloc(h, [Node(static, h.nodes[child].label,
                                          Take(cp, commonLen), <<>>)
                                       EXCEPT !.children = <<child>>])
                     h2 == [h1 EXCEPT
                              !.nodes[child].prefix = Drop(cp, commonLen),
                              !.nodes[child].label = cp[commonLen + 1],
                              !.nodes[n].children =
                                  ReplaceChild(h.nodes[n].children, child, splitNode)]
                 IN IF commonLen = Len(segment)
                    THEN IF remaining = <<>> THEN SetRoute(h2, splitNode, route)
                         ELSE nodeInsert(h2, splitNode, remaining, route)
                    ELSE nodeInsert(h2, splitNode,
                            <<"/">> \o Drop(segment, commonLen) \o remaining, route)
    ELSE \* no matching child: segment[0] of an empty segment is out of range
         IF segment = <<>> THEN [h EXCEPT !.fault = TRUE]
         ELSE LET newChild == Len(h.nodes) + 1
                  h1 == Alloc(h, Node(static, segment[1], segment, <<>>))
                  h2 == IF remaining = <<>> THEN SetRoute(h1, newChild, route)
                        ELSE nodeInsert(h1, newChild, remaining, route)
              IN IF h2.fault THEN h2
                 ELSE [h2 EXCEPT !.nodes[n].children = Append(@, newChild)]

\* tree.insert: the path is normalised to start with '/'
treeInsert(h, root, path, route) ==
    nodeInsert(h, root,
               IF path = <<>> THEN <<"/">>
               ELSE IF path[1] # "/" THEN <<"/">> \o path ELSE path,
               route)

(***************************************************************************)
(* tree.collectRoutes                                                      *)
(***************************************************************************)

RECURSIVE nodeCollectRoutes(_, _)
RECURSIVE CollectChildren(_, _, _)

\* the loop over n.children, in slice order
CollectChildren(nodes, ch, i) ==
    IF i > Len(ch) THEN <<>>
    ELSE nodeCollectRoutes(nodes, ch[i]) \o CollectChildren(nodes, ch, i + 1)

\* node.collectRoutes: the node's own route, then the children's, then the
\* parameter child's
nodeCollectRoutes(nodes, n) ==
    (IF nodes[n].route # 0 THEN <<nodes[n].route>> ELSE <<>>)
    \o CollectChildren(nodes, nodes[n].children, 1)
    \o (IF nodes[n].paramChild # 0 THEN nodeCollectRoutes(nodes, nodes[n].paramChild)
        ELSE <<>>)

\* tree.collectRoutes, of a tree that may be absent (root 0)
treeCollectRoutes(nodes, root) == IF root = 0 THEN <<>> ELSE nodeCollectRoutes(nodes, root)

(***************************************************************************)
(* Middleware chains (middleware.go)                                       *)
(*                                                                         *)
(* A handler is represented by the trace of events running it produces,    *)
(* an event being <<kind, middleware, route>>.  A middleware is an         *)
(* order-recording stub: it records its pre-logic, calls next once, and    *)
(* records its post-logic.                                                 *)
(***************************************************************************)

\* the terminal handler of route r
Handler(r) == << <<"handler", "", r>> >>

\* the default not-found handler (status 404)
notFoundHandler == << <<"notfound", "", 0>> >>

\* m(next) for the recording middleware m
Wrap(m, next) == << <<"pre", m, 0>> >> \o next \o << <<"post", m, 0>> >>

RECURSIVE ChainFrom(_, _, _)
\* the loop body of Chain: for i := len - 1; i >= 0; i-- { handler = mw[i](handler) }
\* with i counted from len down to 1
ChainFrom(middlewares, i, handler) ==
    IF i < 1 THEN handler
    ELSE ChainFrom(middlewares, i - 1, Wrap(middlewares[i], handler))

RECURSIVE ChainForwardFrom(_, _, _)
ChainForwardFrom(middlewares, i, handler) ==
    IF i > Len(middlewares) THEN handler
    ELSE ChainForwardFrom(middlewares, i + 1, Wrap(middlewares[i], handler))

\* Chain with the loop running forward: the last middleware ends outermost
ChainForward(middlewares, handler) == ChainForwardFrom(middlewares, 1, handler)

\* Chain(middlewares...)(handler)
Chain(middlewares, handler) == ChainFrom(middlewares, Len(middlewares), handler)

(***************************************************************************)
(* Copy-on-write insertion                                                 *)
(***************************************************************************)

\* the children of a node: its static children and its parameter child
Kids(nodes, n) ==
    {nodes[n].children[i] : i \in 1..Len(nodes[n].children)}
    \cup (IF nodes[n].paramChild = 0 THEN {} ELSE {nodes[n].paramChild})

RECURSIVE Reach(_, _)
\* the nodes of the tree rooted at n
Reach(nodes, n) == {n} \cup UNION {Reach(nodes, c) : c \in Kids(nodes, n)}

\* insertion that writes the nodes of the old tree in place and keeps its root
insertInPlace(h, root, path, route) ==
    [heap |-> treeInsert(h, root, path, route), root |-> root]

\* the nodes of the old tree that are copied: the root and every node on the
\* way to a node that the insertion (old heap h, resulting heap h2) writes
Spine(h, h2, root) ==
    {root} \cup {a \in Reach(h.nodes, root) :
                   \E m \in Reach(h.nodes, a) : h2.nodes[m] # h.nodes[m]}

\* the address of node n in the new tree: a copied node gets a fresh address
\* after the nodes of h2, a shared node keeps its own
Addr(spine, h2, n) ==
    IF n \in spine THEN Len(h2.nodes) + Cardinality({s \in spine : s <= n}) ELSE n

\* node nd with its child pointers redirected to the copies
Remap(spine, h2, nd) ==
    [nd EXCEPT
       !.children = [i \in 1..Len(nd.children) |-> Addr(spine, h2, nd.children[i])],
       !.paramChild = IF nd.paramChild = 0 THEN 0 ELSE Addr(spine, h2, nd.paramChild)]

\* the old heap h extended by the nodes the insertion created and by the
\* copies of the spine, which carry what the insertion wrote
CopySpine(h, h2, root, spine) ==
    [heap |->
       [nodes |-> h.nodes
                  \o [i \in 1..(Len(h2.nodes) - Len(h.nodes)) |->
                        Remap(spine, h2, h2.nodes[Len(h.nodes) + i])]
                  \o [k \in 1..Cardinality(spine) |->
                        Remap(spine, h2,
                              h2.nodes[CHOOSE n \in spine :
                                         Cardinality({s \in spine : s <= n}) = k])],
        fault |-> h2.fault],
     root |-> Addr(spine, h2, root)]

\* the copy-on-write form of an insertion that turned heap h into heap h2
CopyOnWrite(h, h2, root) == CopySpine(h, h2, root, Spine(h, h2, root))

\* tree.insertWithCopy: the insertion of node.insert, with every node of the
\* old tree on the way from the root to a node the insertion writes replaced
\* by a fresh copy; all other nodes of the old tree are shared and none is
\* written.  The result is the new heap and the new root.
insertWithCopy(h, root, path, route) ==
    CopyOnWrite(h, treeInsert(h, root, path, route), root)

(***************************************************************************)
(* The routing table                                                       *)
(***************************************************************************)

\* HTTP methods are opaque tokens; PROPFIND is a non-standard one
Methods == {"GET", "PROPFIND"}

\* a Go map as its set of <<key, value>> entries
HasKey(m, k) == \E kv \in m : kv[1] = k
Get(m, k) == (CHOOSE kv \in m : kv[1] = k)[2]
Put(m, k, v) == {kv \in m : kv[1] # k} \cup {<<k, v>>}

\* the table of NewRouter(): no route, no tree, no middleware
EmptyTable ==
    [exactRoutes |-> [m \in Methods |-> {}],
     trees |-> [m \in Methods |-> 0],
     chains |-> {},
     middlewares |-> <<>>]

\* a pattern is dynamic when one of its segments starts with ':' or '*'
IsDynamic(pattern) ==
    \E i \in 1..Len(pattern) :
        pattern[i] \in {":", "*"} /\ (i = 1 \/ pattern[i - 1] = "/")

\* the chain compiled for route r at registration: the global middleware
\* around the terminal handler
buildChain(t, r) == Chain(t.middlewares, Handler(r))

\* the chain of a route registered with middleware of its own (a group's
\* and the route's): the global middleware comes first
buildChainWith(t, r, ms) == Chain(t.middlewares \o ms, Handler(r))

\* registration that leaves the compiled-chain map as it was
withRouteNoChain(t, h, method, pattern, r, chain) ==
    IF ~IsDynamic(pattern)
    THEN [table |-> [t EXCEPT !.exactRoutes[method] = Put(@, pattern, r)],
          heap |-> h]
    ELSE IF t.trees[method] = 0
    THEN LET root == Len(h.nodes) + 1
         IN [table |-> [t EXCEPT !.trees[method] = root],
             heap |-> treeInsert(newTree(h), root, pattern, r)]
    ELSE LET ins == insertWithCopy(h, t.trees[method], pattern, r)
         IN [table |-> [t EXCEPT !.trees[method] = ins.root],
             heap |-> ins.heap]

\* the new table (and heap) with route r of method and pattern added and
\* its compiled chain stored: static patterns go to the exact-match index,
\* dynamic ones to a copy of the method's tree
withRouteChain(t, h, method, pattern, r, chain) ==
    LET chains == Put(t.chains, r, chain)
    IN IF ~IsDynamic(pattern)
       THEN [table |-> [t EXCEPT !.exactRoutes[method] = Put(@, pattern, r),
                                 !.chains = chains],
             heap |-> h]
       ELSE IF t.trees[method] = 0
       THEN LET root == Len(h.nodes) + 1
            IN [table |-> [t EXCEPT !.trees[method] = root, !.chains = chains],
                heap |-> treeInsert(newTree(h), root, pattern, r)]
       ELSE LET ins == insertWithCopy(h, t.trees[method], pattern, r)
            IN [table |-> [t EXCEPT !.trees[method] = ins.root, !.chains = chains],
                heap |-> ins.heap]

\* the successor of table t with route r registered for (method, pattern):
\* a static pattern updates a copy of the exact-match index, a dynamic one
\* replaces the method's tree root by copy-on-write insertion
withRoute(t, h, method, pattern, r) ==
    withRouteChain(t, h, method, pattern, r, buildChain(t, r))

\* the outcome of running the chain table t holds for route r; a route
\* without an entry in t.chains yields a nil handler, and calling it faults
Run(t, r, params) ==
    IF HasKey(t.chains, r)
    THEN [status |-> "found", route |-> r, params |-> params, chain |-> Get(t.chains, r)]
    ELSE [status |-> "fault", route |-> r, params |-> params, chain |-> <<>>]

\* the not-found outcome: the default handler without the global middleware
ServeNotFoundBare(t) ==
    [status |-> "notfound", route |-> 0, params |-> NilParams, chain |-> notFoundHandler]

\* the not-found outcome (404): the default handler inside the global
\* middleware chain
ServeNotFound(t) ==
    [status |-> "notfound", route |-> 0, params |-> NilParams,
     chain |-> Chain(t.middlewares, notFoundHandler)]

\* dispatch that searches the tree before the exact-match index
ServeTreeFirst(t, nodes, method, path) ==
    LET f == IF t.trees[method] = 0 THEN [route |-> 0, params |-> NilParams]
             ELSE treeSearch(nodes, t.trees[method], path)
    IN IF f.route # 0 THEN Run(t, f.route, f.params)
       ELSE IF HasKey(t.exactRoutes[method], path)
       THEN Run(t, Get(t.exactRoutes[method], path), NilParams)
       ELSE ServeNotFound(t)

\* dispatch that composes the chain per request from the table's current
\* global middleware instead of using the chain compiled at registration
ServeLate(t, nodes, method, path) ==
    LET f == IF HasKey(t.exactRoutes[method], path)
             THEN [route |-> Get(t.exactRoutes[method], path), params |-> NilParams]
             ELSE IF t.trees[method] = 0 THEN [route |-> 0, params |-> NilParams]
             ELSE treeSearch(nodes, t.trees[method], path)
    IN IF f.route # 0
       THEN [status |-> "found", route |-> f.route, params |-> f.params,
             chain |-> Chain(t.middlewares, Handler(f.route))]
       ELSE ServeNotFound(t)

\* dispatch that resolves every method it has no fast path for as GET
ServeStandardOnly(t, nodes, method, path) ==
    LET m == IF method = "GET" THEN method ELSE "GET"
    IN IF HasKey(t.exactRoutes[m], path)
       THEN Run(t, Get(t.exactRoutes[m], path), NilParams)
       ELSE LET f == IF t.trees[m] = 0 THEN [route |-> 0, params |-> NilParams]
                     ELSE treeSearch(nodes, t.trees[m], path)
            IN IF f.route # 0 THEN Run(t, f.route, f.params)
               ELSE ServeNotFound(t)

\* the outcome of dispatching (method, path) against table t: the
\* exact-match index first, then the method's tree, else not found; with the
\* route (0 when none), the parameters, and the chain that runs
Serve(t, nodes, method, path) ==
    IF HasKey(t.exactRoutes[method], path)
    THEN Run(t, Get(t.exactRoutes[method], path), NilParams)
    ELSE LET f == IF t.trees[method] = 0 THEN [route |-> 0, params |-> NilParams]
                  ELSE treeSearch(nodes, t.trees[method], path)
         IN IF f.route # 0 THEN Run(t, f.route, f.params)
            ELSE ServeNotFound(t)

(***************************************************************************)
(* Built-in middleware (package middleware) and WithTyped                  *)
(*                                                                         *)
(* A handler call is represented by what it yields: the number of times    *)
(* the next handler was invoked, the (data, status, error) returned or the *)
(* value it panicked with, the response headers set, the context values    *)
(* stored, and the number of calls of the token validator.  The next       *)
(* handler is given by its own outcome nx = [data, status, err, panic].    *)
(***************************************************************************)

\* return data, status, err without invoking the next handler
Return(data, status, err) ==
    [calls |-> 0, data |-> data, status |-> status, err |-> err, panic |-> "none",
     headers |-> {}, store |-> {}, validated |-> 0, logged |-> FALSE]

\* return next(ctx): the next handler is invoked once and its outcome (or its
\* panic) is the caller's
CallNext(nx) ==
    [calls |-> 1, data |-> nx.data, status |-> nx.status, err |-> nx.err,
     panic |-> nx.panic, headers |-> {}, store |-> {}, validated |-> 0,
     logged |-> FALSE]

\* nimbus.NewAPIError(code, message), identified by its code
NewAPIError(code) == code

\* ctx.Header(name, value) and ctx.Set(key, value) done before the rest
WithHeaders(hs, out) == [out EXCEPT !.headers = hs \cup @]
WithStore(kvs, out) == [out EXCEPT !.store = kvs \cup @]

\* the 0-based index of the first space of a string, or -1
IndexSpace(str) ==
    IF \E i \in 1..Len(str) : str[i] = " "
    THEN (CHOOSE i \in 1..Len(str) : str[i] = " " /\ \A j \in 1..(i - 1) : str[j] # " ") - 1
    ELSE -1

\* strings.SplitN(s, " ", 2)
SplitN2(str) ==
    IF IndexSpace(str) = -1 THEN <<str>>
    ELSE <<Take(str, IndexSpace(str)), Drop(str, IndexSpace(str) + 1)>>

Bearer == <<"B", "e", "a", "r", "e", "r">>

\* Auth that takes any two-part header for a bearer token
AuthAnyScheme(valid, authHeader, nx) ==
    IF authHeader = <<>>
    THEN Return("nil", 401, NewAPIError("unauthorized"))
    ELSE LET parts == SplitN2(authHeader)
         IN IF Len(parts) # 2
            THEN Return("nil", 401, NewAPIError("unauthorized"))
            ELSE IF parts[2] \notin valid
            THEN [Return("nil", 401, NewAPIError("unauthorized")) EXCEPT !.validated = 1]
            ELSE [WithStore({<<"user", parts[2]>>}, CallNext(nx)) EXCEPT !.validated = 1]

\* Auth(validateToken)(next)(ctx); validateToken is given by the set of
\* tokens it accepts
Auth(valid, authHeader, nx) ==
    IF authHeader = <<>>
    THEN Return("nil", 401, NewAPIError("unauthorized"))
    ELSE LET parts == SplitN2(authHeader)
         IN IF Len(parts) # 2 \/ parts[1] # Bearer
            THEN Return("nil", 401, NewAPIError("unauthorized"))
            ELSE IF parts[2] \notin valid
            THEN [Return("nil", 401, NewAPIError("unauthorized")) EXCEPT !.validated = 1]
            ELSE [WithStore({<<"user", parts[2]>>}, CallNext(nx)) EXCEPT !.validated = 1]

\* the headers CORS sets on every request
CORSCommon(config, origin) ==
    LET allowedOrigin ==
            IF Len(config.AllowOrigins) > 0
            THEN IF config.AllowOrigins[1] = "*" THEN "*"
                 ELSE IF \E i \in 1..Len(config.AllowOrigins) : config.AllowOrigins[i] = origin
                 THEN origin ELSE ""
            ELSE ""
    IN (IF allowedOrigin # "" THEN {<<"Access-Control-Allow-Origin", <<allowedOrigin>>>>} ELSE {})
       \cup (IF config.AllowCredentials
             THEN {<<"Access-Control-Allow-Credentials", <<"true">>>>} ELSE {})
       \cup (IF Len(config.ExposeHeaders) > 0
             THEN {<<"Access-Control-Expose-Headers", config.ExposeHeaders>>} ELSE {})

\* the headers CORS sets on a preflight request; a joined list is kept as
\* the list, a number as its decimal string
CORSPreflight(config) ==
    (IF Len(config.AllowMethods) > 0
     THEN {<<"Access-Control-Allow-Methods", config.AllowMethods>>} ELSE {})
    \cup (IF Len(config.AllowHeaders) > 0
          THEN {<<"Access-Control-Allow-Headers", config.AllowHeaders>>} ELSE {})
    \cup (IF config.MaxAge > 0
          THEN {<<"Access-Control-Max-Age", <<ToString(config.MaxAge)>>>>} ELSE {})

\* CORS that answers a preflight and then still calls the next handler
CORSThrough(config, method, origin, nx) ==
    IF method = "OPTIONS"
    THEN WithHeaders(CORSCommon(config, origin) \cup CORSPreflight(config), CallNext(nx))
    ELSE WithHeaders(CORSCommon(config, origin), CallNext(nx))

\* CORS(config)(next)(ctx)
CORS(config, method, origin, nx) ==
    IF method = "OPTIONS"
    THEN WithHeaders(CORSCommon(config, origin) \cup CORSPreflight(config),
                     Return("nil", 204, "none"))
    ELSE WithHeaders(CORSCommon(config, origin), CallNext(nx))

\* recover() in a deferred call: the value of the panic in flight; under
\* go 1.25 a panic(nil) is recovered as a *runtime.PanicNilError
Recover(panic) == IF panic = "nil" THEN "PanicNilError" ELSE panic

\* Recovery without the deferred recover
RecoveryNone(nx) == CallNext(nx)

\* Recovery()(next)(ctx)
Recovery(nx) ==
    LET out == CallNext(nx)
    IN IF Recover(out.panic) # "none"
       THEN [out EXCEPT !.data = "nil", !.status = 500,
                        !.err = NewAPIError("internal_server_error"), !.panic = "none"]
       ELSE out

\* RequestID(config)(next)(ctx), the generator yielding id
RequestID(requestID, id, nx) ==
    LET rid == IF requestID = "" THEN id ELSE requestID
    IN WithStore({<<"request_id", <<rid>>>>},
                 WithHeaders({<<"X-Request-ID", <<rid>>>>}, CallNext(nx)))

\* Logger that goes on to the logging call after serving a skipped path
LoggerFallThrough(skipPaths, path, nx) ==
    IF path \in skipPaths /\ nx.panic = "none"
    THEN [CallNext(nx) EXCEPT !.calls = 2]
    ELSE CallNext(nx)

\* Logger(config)(next)(ctx): a skipped path returns next(ctx) from inside the
\* loop, any other path calls next(ctx) and then logs
Logger(skipPaths, path, nx) ==
    IF path \in skipPaths THEN CallNext(nx)
    ELSE [CallNext(nx) EXCEPT !.logged = (nx.panic = "none")]

\* the handler of the rate-limit middlewares, allowed being limiter.allow(key)
RateLimitHandler(allowed, nx) ==
    IF ~allowed
    THEN Return("nil", 429, NewAPIError("rate_limit_exceeded"))
    ELSE CallNext(nx)

\* ctx.SendValidationError(errs): a 400 response listing the field errors
SendValidationError == Return("nil", 400, NewAPIError("validation_error"))

\* the typed request built so far: nil or a value per part
NoTyped == [Params |-> "nil", Body |-> "nil", Query |-> "nil"]

\* WithTyped that skips validation and hands the handler a value for every part
WithTypedEager(params, body, query, nx) ==
    [out |-> CallNext(nx), req |-> [Params |-> "params", Body |-> "body", Query |-> "query"]]

\* WithTyped(handler, params, body, query)(ctx).  A validator is "none" when
\* nil was passed; otherwise it is given by what its step does with this
\* request: "ok", "factoryNil" (Factory returns nil), "error" (extraction or
\* binding fails) or "invalid" (binding returns ValidationErrors).  The
\* typed handler is given by its outcome nx; the result carries the
\* TypedRequest the handler was called with.
WithTyped(params, body, query, nx) ==
    LET sp == IF params = "ok" THEN {<<"ContextKeyValidatedParams", <<"params">>>>} ELSE {}
        sb == sp \cup (IF body = "ok" THEN {<<"ContextKeyValidatedBody", <<"body">>>>} ELSE {})
        sq == sb \cup (IF query = "ok" THEN {<<"ContextKeyValidatedQuery", <<"query">>>>} ELSE {})
        fail(code, st) == [out |-> WithStore(st, Return("nil", 400, NewAPIError(code))),
                           req |-> NoTyped]
    IN IF params = "factoryNil" THEN fail("invalid_request", {})
       ELSE IF params = "error" THEN fail("invalid_path_params", {})
       ELSE IF body = "factoryNil" THEN fail("invalid_request", sp)
       ELSE IF body \in {"error", "invalid"} THEN fail("invalid_request", sp)
       ELSE IF query = "factoryNil" THEN fail("invalid_request", sb)
       ELSE IF query = "invalid" THEN [out |-> WithStore(sb, SendValidationError), req |-> NoTyped]
       ELSE IF query = "error" THEN fail("invalid_request", sb)
       ELSE [out |-> WithStore(sq, CallNext(nx)),
             req |-> [Params |-> IF params = "ok" THEN "params" ELSE "nil",
                      Body |-> IF body = "ok" THEN "body" ELSE "nil",
                      Query |-> IF query = "ok" THEN "query" ELSE "nil"]]

(***************************************************************************)
(* The rate limiter (middleware/ratelimit.go)                              *)
(***************************************************************************)

\* the keys of requests (remote addresses or header values)
Keys == {"k1", "k2"}

\* the resolution of the clock: ticks per second
TicksPerSecond == 2

\* no bucket for a key
NoBucket == [exists |-> FALSE, tokens |-> 0, lastSeen |-> 0]

\* before NewRateLimiter
NoLimiter ==
    [made |-> FALSE, rate |-> 0, capacity |-> 0, buckets |-> [k \in Keys |-> NoBucket],
     done |-> "open", closeOnce |-> "fresh", closes |-> 0, unregs |-> 0,
     registered |-> FALSE, fault |-> FALSE, loop |-> "none", passes |-> 0]

\* NewRateLimiter(rate, capacity), which starts the cleanup goroutine
NewRateLimiter(rate, capacity) ==
    [NoLimiter EXCEPT !.made = TRUE, !.rate = rate, !.capacity = capacity,
                      !.loop = "select"]

\* rl.cleanup: five minutes, in seconds and in ticks
CleanupSeconds == 300
CleanupTicks == CleanupSeconds * TicksPerSecond

\* one pass of cleanupLoop at time now: the buckets not seen for more than
\* rl.cleanup are deleted
cleanupPass(rl, now) ==
    [rl EXCEPT !.buckets =
        [k \in Keys |->
            IF rl.buckets[k].exists /\ now - rl.buckets[k].lastSeen > CleanupTicks
            THEN NoBucket ELSE rl.buckets[k]]]

\* a min that returns its second argument
minSecond(a, b) == b

min(a, b) == IF a < b THEN a ELSE b

\* int(elapsed.Seconds() * float64(rate)), elapsed in ticks
Refill(rate, elapsed) == (elapsed * rate) \div TicksPerSecond

\* allow that gives a new bucket the full capacity after the first request
allowFull(rl, key, now) ==
    LET b == rl.buckets[key]
    IN IF ~b.exists
       THEN [limiter |-> [rl EXCEPT !.buckets[key] =
                              [exists |-> TRUE, tokens |-> rl.capacity, lastSeen |-> now]],
             ok |-> TRUE]
       ELSE LET tokens == min(rl.capacity, b.tokens + Refill(rl.rate, now - b.lastSeen))
            IN IF tokens > 0
               THEN [limiter |-> [rl EXCEPT !.buckets[key] =
                                      [exists |-> TRUE, tokens |-> tokens - 1, lastSeen |-> now]],
                     ok |-> TRUE]
               ELSE [limiter |-> [rl EXCEPT !.buckets[key] =
                                      [exists |-> TRUE, tokens |-> tokens, lastSeen |-> now]],
                     ok |-> FALSE]

\* rl.allow(key) at time now: the limiter afterwards and the decision
allow(rl, key, now) ==
    LET b == rl.buckets[key]
    IN IF ~b.exists
       THEN [limiter |-> [rl EXCEPT !.buckets[key] =
                              [exists |-> TRUE, tokens |-> rl.capacity - 1, lastSeen |-> now]],
             ok |-> TRUE]
       ELSE LET tokens == min(rl.capacity, b.tokens + Refill(rl.rate, now - b.lastSeen))
            IN IF tokens > 0
               THEN [limiter |-> [rl EXCEPT !.buckets[key] =
                                      [exists |-> TRUE, tokens |-> tokens - 1, lastSeen |-> now]],
                     ok |-> TRUE]
               ELSE [limiter |-> [rl EXCEPT !.buckets[key] =
                                      [exists |-> TRUE, tokens |-> tokens, lastSeen |-> now]],
                     ok |-> FALSE]

\* once.Do(f) that runs f on every call
OnceAlways(once) == "run"

\* sync.Once.Do(f): the first call runs f, a call made while f runs waits
\* for it, a call made after f has returned returns at once
OnceDo(once) ==
    IF once = "fresh" THEN "run" ELSE IF once = "running" THEN "wait" ELSE "return"

(***************************************************************************)
(* Bounds and inputs                                                       *)
(***************************************************************************)

\* the number of AddRoute calls
MaxRoutes == 3

\* the length of the global middleware list
MaxMiddleware == 2

\* the number of dispatches
MaxDispatch == 1

Writers == {"w1", "w2"}
Dispatchers == {"d1"}

\* the patterns registered: /a/:x  /a/b/:y  /ab/:y  /a/:z/c  /a/b
Patterns ==
    { <<"/", "a", "/", ":", "x">>,
      <<"/", "a", "/", "b", "/", ":", "y">>,
      <<"/", "a", "b", "/", ":", "y">>,
      <<"/", "a", "/", ":", "z", "/", "c">>,
      <<"/", "a", "/", "b">> }

\* the paths requested: /a/b  /a/5  /a/b/5  /ab/5  /a/5/c  /b
Paths ==
    { <<"/", "a", "/", "b">>,
      <<"/", "a", "/", "5">>,
      <<"/", "a", "/", "b", "/", "5">>,
      <<"/", "a", "b", "/", "5">>,
      <<"/", "a", "/", "5", "/", "c">>,
      <<"/", "b">> }

\* the arguments of Use
MiddlewareLists == { <<"A">>, <<"B">>, <<"A", "B">> }

Queries == Methods \X Paths

\* the registrar of the router itself: no prefix, no middleware of its own
RootRegistrar == [prefix |-> <<>>, ms |-> <<>>]

\* parent.Group(prefix, middleware...): the scoped registrar
Group(parent, prefix, ms) == [prefix |-> parent.prefix \o prefix, ms |-> parent.ms \o ms]

RECURSIVE Registrar(_, _)
\* the registrar obtained by the Group calls decls[1..i], outermost first
Registrar(decls, i) ==
    IF i = 0 THEN RootRegistrar
    ELSE Group(Registrar(decls, i - 1), decls[i].prefix, decls[i].ms)

\* the registrations made through groups: the Group calls (outermost
\* first), the pattern and the route-specific middleware
GroupA == [prefix |-> <<"/", "a">>, ms |-> <<"G">>]
GroupB == [prefix |-> <<"/", "b">>, ms |-> <<"H">>]
GroupAB == [prefix |-> <<"/", "a", "b">>, ms |-> <<"G">>]

GroupRoutes ==
    { [groups |-> <<GroupA>>, pattern |-> <<"/", ":", "y">>, ms |-> <<>>],
      [groups |-> <<GroupA, GroupB>>, pattern |-> <<"/", ":", "y">>, ms |-> <<"R">>],
      [groups |-> <<GroupAB>>, pattern |-> <<"/", ":", "y">>, ms |-> <<>>],
      [groups |-> <<GroupA>>, pattern |-> <<"/", "b">>, ms |-> <<"R">>] }

\* the number of insertions into the tree used directly
MaxInserts == 3

\* the patterns inserted into it: /a/:x  /a/:y  /a/b  /ab/:y  /a/b/:y  /a/*r
TreePatterns ==
    { <<"/", "a", "/", ":", "x">>,
      <<"/", "a", "/", ":", "y">>,
      <<"/", "a", "/", "b">>,
      <<"/", "a", "b", "/", ":", "y">>,
      <<"/", "a", "/", "b", "/", ":", "y">>,
      <<"/", "a", "/", "*", "r">> }

\* the paths searched: /a/b  /a/5  /a/bc  /a/b/5  /ab/5  /a/*r  /a/5/6
TreePaths ==
    { <<"/", "a", "/", "b">>,
      <<"/", "a", "/", "5">>,
      <<"/", "a", "/", "b", "c">>,
      <<"/", "a", "/", "b", "/", "5">>,
      <<"/", "a", "b", "/", "5">>,
      <<"/", "a", "/", "*", "r">>,
      <<"/", "a", "/", "5", "/", "6">> }

\* patterns with empty segments, a trailing slash or no leading slash:
\* /a/:x  /a  /a/  //a  /a//b  a/b  and the empty pattern
EdgePatterns ==
    { <<"/", "a", "/", ":", "x">>,
      <<"/", "a">>,
      <<"/", "a", "/">>,
      <<"/", "/", "a">>,
      <<"/", "a", "/", "/", "b">>,
      <<"a", "/", "b">>,
      <<>> }

\* paths with empty segments: /a/5  /a/  /a//  //a  /a//b  /  and /a/b
EdgePaths ==
    { <<"/", "a", "/", "5">>,
      <<"/", "a", "/">>,
      <<"/", "a", "/", "/">>,
      <<"/", "/", "a">>,
      <<"/", "a", "/", "/", "b">>,
      <<"/">>,
      <<"/", "a", "/", "b">> }

\* the goroutines that call Shutdown and Close, and how many calls each makes
Procs == {"p1", "p2"}
MaxCalls == 2

\* the cleanup callbacks: limiter.Close and one other callback
Callbacks == {"close", "cb"}

\* the limiters created, the clock and the number of allow calls
Rates == {0, 1, 3}
MaxCapacity == 2
MaxClock == 2
MaxRequests == 4
MaxPasses == 1

\* the outcomes of a next handler: a result, an error result, a panic with a
\* value and a panic with nil
NextOutcomes ==
    { [data |-> "d", status |-> 200, err |-> "none", panic |-> "none"],
      [data |-> "nil", status |-> 503, err |-> "e", panic |-> "none"],
      [data |-> "nil", status |-> 0, err |-> "none", panic |-> "boom"],
      [data |-> "nil", status |-> 0, err |-> "none", panic |-> "nil"] }

\* Authorization headers and the tokens validateToken may accept
AuthHeaders ==
    { <<>>,
      Bearer,
      Bearer \o <<" ">>,
      Bearer \o <<" ", "t">>,
      Bearer \o <<" ", "t", " ", "u">>,
      <<"B", "a", "s", "i", "c", " ", "t">>,
      <<"b", "e", "a", "r", "e", "r", " ", "t">>,
      <<" ", "t">> }

Tokens == { <<>>, <<"t">>, <<"t", " ", "u">> }

\* CORS configurations and requests
CORSConfigs ==
    [AllowOrigins : { <<>>, <<"*">>, <<"o1", "o2">> },
     AllowMethods : { <<>>, <<"GET", "POST">> },
     AllowHeaders : { <<>>, <<"Origin">> },
     ExposeHeaders : { <<>>, <<"X-Total">> },
     AllowCredentials : BOOLEAN,
     MaxAge : {0, 3600}]

RequestMethods == {"GET", "POST", "OPTIONS"}
Origins == {"", "o2", "o3"}

\* what a validator of WithTyped does with a request
ParamsValidators == {"none", "ok", "factoryNil", "error"}
BodyValidators == {"none", "ok", "factoryNil", "error", "invalid"}
QueryValidators == {"none", "ok", "factoryNil", "error", "invalid"}

\* incoming X-Request-ID headers, and the request paths Logger sees and skips
RequestIDs == {"", "rid"}
LogPaths == {"/health", "/users"}

(***************************************************************************)
(* The router                                                              *)
(***************************************************************************)

VARIABLES
    heap,      \* the tree nodes
    routes,    \* the Route values created, a route's identity being its index
    tables,    \* the routing tables built, in the order they were stored
    table,     \* Router.table: the index of the published table
    mu,        \* Router.mu: "free", or the writer holding it
    wr,        \* per writer: its position in AddRoute and its locals
    dp,        \* per dispatcher: its position in ServeHTTP and its locals
    ndisp,     \* the number of dispatches started
    snap,      \* history: per table, the outcome of every query when it was stored
    pubNodes,  \* history: every node as it was when its table was stored
    log,       \* history: the Use and AddRoute calls in the order they took effect
    cleanup,   \* Router: the cleanup callbacks and the state of Shutdown
    limiter,   \* the RateLimiter: its buckets, done channel, closeOnce, registry entry
    clock,     \* time.Now(), in ticks
    decisions, \* history: the allow calls and their results, in order
    proc,      \* per goroutine: its position in Shutdown / Close and its locals
    call,      \* the last middleware or handler wrapper applied, with its result
    tr,        \* a tree used directly: its nodes, the patterns inserted, the searches
    pool,      \* the context pool: the contexts, their maps and the requests in flight
    registry   \* rateLimiterRegistry, registryMu, its limiters and the goroutines on them

\* the state of routing, and the state of the lifecycle and middleware parts
routing == <<heap, routes, tables, table, mu, wr, dp, ndisp, snap, pubNodes, log>>
aux == <<cleanup, limiter, clock, decisions, proc, call>>
direct == <<tr, pool, registry>>
vars == <<heap, routes, tables, table, mu, wr, dp, ndisp, snap, pubNodes, log,
          cleanup, limiter, clock, decisions, proc, call, tr, pool, registry>>

IdleWriter == [pc |-> "idle", method |-> "", pattern |-> <<>>, old |-> 0]

NoResult == [status |-> "none", route |-> 0, params |-> NilParams, chain |-> <<>>]

IdleDispatcher ==
    [pc |-> "idle", method |-> "", path |-> <<>>, first |-> 0, nroutes |-> 0,
     ver |-> 0, last |-> 0, result |-> NoResult]

\* the Router before any RegisterCleanup and Shutdown
NoCleanup == [funcs |-> <<>>, once |-> "fresh", invoked |-> [c \in Callbacks |-> 0]]

\* a goroutine outside Shutdown and Close, having made n calls
IdleProc == [pc |-> "idle", i |-> 0, ret |-> "idle", n |-> 0, sd |-> 0]

\* no middleware applied yet
NoCall ==
    [mw |-> "none", in |-> [nx |-> [data |-> "nil", status |-> 0, err |-> "none", panic |-> "none"]],
     out |-> Return("nil", 0, "none"), req |-> NoTyped]

\* no search made yet
NoSearch == [path |-> <<>>, route |-> 0, params |-> NilParams, done |-> FALSE]

\* newTree() with nothing inserted and nothing searched: the nodes, the
\* nodes as they were before the last insertion, the patterns inserted (a
\* route being the index of its pattern) and the last search
NoTree ==
    [heap |-> newTree(EmptyHeap), prev |-> newTree(EmptyHeap), routes |-> <<>>,
     last |-> NoSearch]

\* the context pool before the first request
(***************************************************************************)
(* The context pool.  A map is an identity and its entries <<key, use>>:   *)
(* use says during which use of its context the entry was written.  The    *)
(* nil map has identity 0; the maps a field of a context holds one after   *)
(* the other are numbered 1, 2, ...                                        *)
(***************************************************************************)
\* a map larger than this is replaced on reset instead of being cleared
ResetThreshold == 8

NilMap == [id |-> 0, entries |-> {}]

\* make(map, 8): a fresh empty map
MakeMap(id) == [id |-> id, entries |-> {}]

\* what reset does to one map field
resetMap(m) ==
    IF m # NilMap
    THEN IF Cardinality(m.entries) > ResetThreshold
         THEN MakeMap(m.id + 1)
         ELSE [m EXCEPT !.entries = {}]
    ELSE m

\* Context.reset: the path parameters, and the same for the values
resetParamsOnly(c) ==
    [c EXCEPT !.PathParams = resetMap(c.PathParams)]

reset(c) ==
    [c EXCEPT !.PathParams = resetMap(c.PathParams),
              !.values = resetMap(c.values)]

\* contextPool.New
NewContext == [PathParams |-> NilMap, values |-> NilMap]

\* a request writes the keys 1..n of a map, which is allocated when nil
WriteKeys(m, n, r) ==
    IF n = 0 THEN m
    ELSE LET base == IF m = NilMap THEN MakeMap(1) ELSE m
         IN  [base EXCEPT !.entries =
                 {e \in base.entries : e[1] \notin 1..n} \cup {<<k, r>> : k \in 1..n}]

\* the requests served through the pool and the sizes a request writes
MaxPoolRequests == 3
Handlers == {"h1", "h2"}
KeyCounts == {0, ResetThreshold, ResetThreshold + 1}

IdleHandler == [pc |-> "idle", ctx |-> 0]

\* ctxs: the contexts ever created, each with its owner ("": in the pool)
\* and the number of requests it has served
NoPool ==
    [ctxs |-> <<>>, req |-> [p \in Handlers |-> IdleHandler], served |-> 0]

\* the limiters RateLimit may create, each entered in the registry
LimiterIds == {"l1", "l2"}

\* a limiter not created yet, and a goroutine that runs no call
NoEntry == [made |-> FALSE, registered |-> FALSE, done |-> "open", closeOnce |-> "fresh"]
IdleCaller == [pc |-> "idle", n |-> 0, limiters |-> <<>>, i |-> 0, rl |-> "", ret |-> "idle"]

\* the empty registry: mu is registryMu, "free" or the goroutine holding it
NoRegistry ==
    [limiters |-> [l \in LimiterIds |-> NoEntry], mu |-> "free", fault |-> FALSE,
     g |-> [p \in Procs |-> IdleCaller]]

\* the outcome of every query against table t
Outcomes(t, nodes) == [q \in Queries |-> Serve(t, nodes, q[1], q[2])]

\* NewRouter()
Init ==
    /\ heap = EmptyHeap
    /\ routes = <<>>
    /\ tables = <<EmptyTable>>
    /\ table = 1
    /\ mu = "free"
    /\ wr = [w \in Writers |-> IdleWriter]
    /\ dp = [d \in Dispatchers |-> IdleDispatcher]
    /\ ndisp = 0
    /\ snap = <<Outcomes(EmptyTable, <<>>)>>
    /\ pubNodes = <<>>
    /\ log = <<>>
    /\ cleanup = NoCleanup
    /\ limiter = NoLimiter
    /\ clock = 0
    /\ decisions = <<>>
    /\ proc = [p \in Procs |-> IdleProc]
    /\ call = NoCall
    /\ tr = NoTree
    /\ pool = NoPool
    /\ registry = NoRegistry

\* r.table.Store(t), with the histories of the stored table
Publish(t, h) ==
    /\ heap' = h
    /\ tables' = Append(tables, t)
    /\ table' = Len(tables) + 1
    /\ snap' = Append(snap, Outcomes(t, h.nodes))
    /\ pubNodes' = pubNodes \o SubSeq(h.nodes, Len(pubNodes) + 1, Len(h.nodes))

\* Router.mu.Lock() succeeds
MuFree == mu = "free"

\* AddRoute, first part: r.mu.Lock(); old := r.table.Load()
AddRouteBegin(w, method, pattern) ==
    /\ wr[w].pc = "idle"
    /\ Len(routes) + Cardinality({v \in Writers : wr[v].pc = "locked"}) < MaxRoutes
    /\ MuFree
    /\ mu' = w
    /\ wr' = [wr EXCEPT ![w] = [pc |-> "locked", method |-> method,
                                pattern |-> pattern, old |-> table]]
    /\ UNCHANGED <<heap, routes, tables, table, dp, ndisp, snap, pubNodes, log>>
    /\ UNCHANGED aux
    /\ UNCHANGED direct

\* AddRoute, second part: the Route is created, its chain compiled, the
\* successor table built and stored; r.mu.Unlock() and return
AddRouteEnd(w) ==
    /\ wr[w].pc = "locked"
    /\ LET r == Len(routes) + 1
           new == withRoute(tables[wr[w].old], heap, wr[w].method, wr[w].pattern, r)
       IN /\ routes' = Append(routes, [method |-> wr[w].method,
                                       pattern |-> wr[w].pattern])
          /\ Publish(new.table, new.heap)
          /\ log' = Append(log, [op |-> "add", route |-> r, ms |-> <<>>, groups |-> <<>>,
                                 pattern |-> wr[w].pattern])
    /\ mu' = IF mu = w THEN "free" ELSE mu
    /\ wr' = [wr EXCEPT ![w] = IdleWriter]
    /\ UNCHANGED <<dp, ndisp>>
    /\ UNCHANGED aux
    /\ UNCHANGED direct

\* Use(middlewares...): under the mutex, the successor table carries the
\* extended global middleware list
Use(ms) ==
    /\ MuFree
    /\ Len(tables[table].middlewares) + Len(ms) <= MaxMiddleware
    /\ Publish([tables[table] EXCEPT !.middlewares = @ \o ms], heap)
    /\ log' = Append(log, [op |-> "use", route |-> 0, ms |-> ms, groups |-> <<>>,
                           pattern |-> <<>>])
    /\ UNCHANGED <<routes, mu, wr, dp, ndisp>>
    /\ UNCHANGED aux
    /\ UNCHANGED direct

\* ServeHTTP is entered with (method, path)
DispatchStart(d, method, path) ==
    /\ dp[d].pc \in {"idle", "done"}
    /\ ndisp < MaxDispatch
    /\ ndisp' = ndisp + 1
    /\ dp' = [dp EXCEPT ![d] = [IdleDispatcher EXCEPT
                  !.pc = "started", !.method = method, !.path = path,
                  !.first = table, !.nroutes = Len(routes)]]
    /\ UNCHANGED <<heap, routes, tables, table, mu, wr, snap, pubNodes, log>>
    /\ UNCHANGED aux
    /\ UNCHANGED direct

\* table := r.table.Load()
DispatchLoad(d) ==
    /\ dp[d].pc = "started"
    /\ dp' = [dp EXCEPT ![d].pc = "loaded", ![d].ver = table]
    /\ UNCHANGED <<heap, routes, tables, table, mu, wr, ndisp, snap, pubNodes, log>>
    /\ UNCHANGED aux
    /\ UNCHANGED direct

\* the route is resolved against the loaded table and its chain runs
DispatchEnd(d) ==
    /\ dp[d].pc = "loaded"
    /\ dp' = [dp EXCEPT ![d].pc = "done", ![d].last = table,
                        ![d].result = Serve(tables[dp[d].ver], heap.nodes,
                                            dp[d].method, dp[d].path)]
    /\ UNCHANGED <<heap, routes, tables, table, mu, wr, ndisp, snap, pubNodes, log>>
    /\ UNCHANGED aux
    /\ UNCHANGED direct

\* registrations from one goroutine, over every method and pattern
Next ==
    \/ \E m \in Methods, p \in Patterns : AddRouteBegin("w1", m, p)
    \/ AddRouteEnd("w1")

Spec == Init /\ [][Next]_vars

\* the patterns of the middleware scenario: /a/:x and /a/b
MwPatterns ==
    { <<"/", "a", "/", ":", "x">>,
      <<"/", "a", "/", "b">> }

\* Use calls and registrations (of one method) from one goroutine
NextMw ==
    \/ \E p \in MwPatterns : AddRouteBegin("w1", "GET", p)
    \/ AddRouteEnd("w1")
    \/ \E ms \in MiddlewareLists : Use(ms)

SpecMw == Init /\ [][NextMw]_vars

\* the patterns and paths of the concurrent scenario
ConcPatterns ==
    { <<"/", "a", "/", ":", "x">>,
      <<"/", "a", "/", "b", "/", ":", "y">>,
      <<"/", "a", "b", "/", ":", "y">> }

ConcPaths ==
    { <<"/", "a", "/", "b">>,
      <<"/", "a", "/", "b", "/", "5">>,
      <<"/", "a", "b", "/", "5">> }

\* concurrent registrations and dispatches
NextConc ==
    \/ \E w \in Writers, p \in ConcPatterns : AddRouteBegin(w, "GET", p)
    \/ \E w \in Writers : AddRouteEnd(w)
    \/ \E d \in Dispatchers, path \in ConcPaths : DispatchStart(d, "GET", path)
    \/ \E d \in Dispatchers : DispatchLoad(d)
    \/ \E d \in Dispatchers : DispatchEnd(d)

SpecConc == Init /\ [][NextConc]_vars

(***************************************************************************)
(* Registration through groups                                             *)
(***************************************************************************)

\* g.AddRoute(method, pattern, handler, ms...) on the registrar made by the
\* Group calls decls: Router.AddRoute of the prefixed pattern with the
\* group's middleware followed by the route's
GroupAddRoute(reg, method) ==
    /\ MuFree
    /\ Len(routes) < MaxRoutes
    /\ LET g == Registrar(reg.groups, Len(reg.groups))
           r == Len(routes) + 1
           t == tables[table]
           new == withRouteChain(t, heap, method, g.prefix \o reg.pattern, r,
                                 buildChainWith(t, r, g.ms \o reg.ms))
       IN /\ routes' = Append(routes, [method |-> method,
                                       pattern |-> g.prefix \o reg.pattern])
          /\ Publish(new.table, new.heap)
          /\ log' = Append(log, [op |-> "add", route |-> r, ms |-> reg.ms,
                                 groups |-> reg.groups, pattern |-> reg.pattern])
    /\ UNCHANGED <<mu, wr, dp, ndisp>>
    /\ UNCHANGED aux
    /\ UNCHANGED direct

\* registrations on the router and through groups, and Use calls
NextGroup ==
    \/ \E reg \in GroupRoutes : GroupAddRoute(reg, "GET")
    \/ AddRouteBegin("w1", "GET", <<"/", "a", "/", ":", "x">>)
    \/ AddRouteEnd("w1")
    \/ Use(<<"A">>)

SpecGroup == Init /\ [][NextGroup]_vars

(***************************************************************************)
(* Router shutdown and RateLimiter.Close                                   *)
(***************************************************************************)

\* RateLimitWithRouter(router, rate, burst): NewRateLimiter and
\* router.RegisterCleanup(limiter.Close)
RateLimitWithRouter(rate, burst) ==
    /\ ~limiter.made
    /\ cleanup.once = "fresh"
    /\ limiter' = NewRateLimiter(rate, burst)
    /\ cleanup' = [cleanup EXCEPT !.funcs = Append(@, "close")]
    /\ UNCHANGED <<clock, decisions, proc, call>>
    /\ UNCHANGED routing
    /\ UNCHANGED direct

\* RateLimit(rate, burst): NewRateLimiter and registerLimiter
RateLimit(rate, burst) ==
    /\ ~limiter.made
    /\ limiter' = [NewRateLimiter(rate, burst) EXCEPT !.registered = TRUE]
    /\ UNCHANGED <<cleanup, clock, decisions, proc, call>>
    /\ UNCHANGED routing
    /\ UNCHANGED direct

\* router.RegisterCleanup(f) for a callback not registered yet
RegisterCleanup(f) ==
    /\ cleanup.once = "fresh"
    /\ \A i \in 1..Len(cleanup.funcs) : cleanup.funcs[i] # f
    /\ cleanup' = [cleanup EXCEPT !.funcs = Append(@, f)]
    /\ UNCHANGED <<limiter, clock, decisions, proc, call>>
    /\ UNCHANGED routing
    /\ UNCHANGED direct

\* router.Shutdown() is called: the first call runs the callbacks, a call
\* made meanwhile waits, a later call returns
ShutdownEnter(p) ==
    /\ proc[p].pc = "idle"
    /\ proc[p].n < MaxCalls
    /\ LET d == OnceDo(cleanup.once)
       IN /\ proc' = [proc EXCEPT ![p].n = @ + 1,
                                  ![p].sd = @ + 1,
                                  ![p].i = 1,
                                  ![p].pc = IF d = "run" THEN "sd_loop"
                                            ELSE IF d = "wait" THEN "sd_wait" ELSE "idle"]
          /\ cleanup' = IF d = "run" THEN [cleanup EXCEPT !.once = "running"] ELSE cleanup
    /\ UNCHANGED <<limiter, clock, decisions, call>>
    /\ UNCHANGED routing
    /\ UNCHANGED direct

\* a waiting Shutdown call returns once the running one has finished
ShutdownWake(p) ==
    /\ proc[p].pc = "sd_wait"
    /\ cleanup.once = "done"
    /\ proc' = [proc EXCEPT ![p].pc = "idle"]
    /\ UNCHANGED <<cleanup, limiter, clock, decisions, call>>
    /\ UNCHANGED routing
    /\ UNCHANGED direct

\* Shutdown invokes the next callback; limiter.Close is then entered
ShutdownInvoke(p) ==
    /\ proc[p].pc = "sd_loop"
    /\ proc[p].i <= Len(cleanup.funcs)
    /\ LET f == cleanup.funcs[proc[p].i]
       IN /\ cleanup' = [cleanup EXCEPT !.invoked[f] = @ + 1]
          /\ proc' = [proc EXCEPT ![p].i = @ + 1,
                                  ![p].ret = "sd_loop",
                                  ![p].pc = IF f = "close" THEN "cl_enter" ELSE "sd_loop"]
    /\ UNCHANGED <<limiter, clock, decisions, call>>
    /\ UNCHANGED routing
    /\ UNCHANGED direct

\* Shutdown has invoked every callback and returns
ShutdownReturn(p) ==
    /\ proc[p].pc = "sd_loop"
    /\ proc[p].i > Len(cleanup.funcs)
    /\ cleanup' = [cleanup EXCEPT !.once = "done"]
    /\ proc' = [proc EXCEPT ![p].pc = "idle"]
    /\ UNCHANGED <<limiter, clock, decisions, call>>
    /\ UNCHANGED routing
    /\ UNCHANGED direct

\* rl.Close() is called directly
CloseCall(p) ==
    /\ proc[p].pc = "idle"
    /\ proc[p].n < MaxCalls
    /\ limiter.made
    /\ proc' = [proc EXCEPT ![p].n = @ + 1, ![p].pc = "cl_enter", ![p].ret = "idle"]
    /\ UNCHANGED <<cleanup, limiter, clock, decisions, call>>
    /\ UNCHANGED routing
    /\ UNCHANGED direct

\* rl.closeOnce.Do(...)
CloseEnter(p) ==
    /\ proc[p].pc = "cl_enter"
    /\ LET d == OnceDo(limiter.closeOnce)
       IN /\ proc' = [proc EXCEPT ![p].pc = IF d = "run" THEN "cl_chan"
                                            ELSE IF d = "wait" THEN "cl_wait"
                                            ELSE proc[p].ret]
          /\ limiter' = IF d = "run" THEN [limiter EXCEPT !.closeOnce = "running"]
                        ELSE limiter
    /\ UNCHANGED <<cleanup, clock, decisions, call>>
    /\ UNCHANGED routing
    /\ UNCHANGED direct

\* a Close call that waited in closeOnce.Do returns
CloseWake(p) ==
    /\ proc[p].pc = "cl_wait"
    /\ limiter.closeOnce = "done"
    /\ proc' = [proc EXCEPT ![p].pc = proc[p].ret]
    /\ UNCHANGED <<cleanup, limiter, clock, decisions, call>>
    /\ UNCHANGED routing
    /\ UNCHANGED direct

\* a Close that leaves rl.done open
CloseChanSkip(p) ==
    /\ proc[p].pc = "cl_chan"
    /\ limiter' = [limiter EXCEPT !.closes = @ + 1]
    /\ proc' = [proc EXCEPT ![p].pc = "cl_unreg"]
    /\ UNCHANGED <<cleanup, clock, decisions, call>>
    /\ UNCHANGED routing
    /\ UNCHANGED direct

\* close(rl.done): closing a closed channel panics
CloseChan(p) ==
    /\ proc[p].pc = "cl_chan"
    /\ IF limiter.done = "closed"
       THEN /\ limiter' = [limiter EXCEPT !.fault = TRUE, !.closes = @ + 1]
            /\ proc' = [proc EXCEPT ![p].pc = "panicked"]
       ELSE /\ limiter' = [limiter EXCEPT !.done = "closed", !.closes = @ + 1]
            /\ proc' = [proc EXCEPT ![p].pc = "cl_unreg"]
    /\ UNCHANGED <<cleanup, clock, decisions, call>>
    /\ UNCHANGED routing
    /\ UNCHANGED direct

\* unregisterLimiter(rl), after which closeOnce.Do returns
CloseUnregister(p) ==
    /\ proc[p].pc = "cl_unreg"
    /\ limiter' = [limiter EXCEPT !.registered = FALSE, !.unregs = @ + 1,
                                  !.closeOnce = "done"]
    /\ proc' = [proc EXCEPT ![p].pc = proc[p].ret]
    /\ UNCHANGED <<cleanup, clock, decisions, call>>
    /\ UNCHANGED routing
    /\ UNCHANGED direct

\* the limiter of a router, another callback, and goroutines that call
\* Shutdown and Close in any order
NextLife ==
    \/ \E rate \in Rates, burst \in 1..MaxCapacity : RateLimitWithRouter(rate, burst)
    \/ \E rate \in Rates, burst \in 1..MaxCapacity : RateLimit(rate, burst)
    \/ RegisterCleanup("cb")
    \/ \E p \in Procs : ShutdownEnter(p)
    \/ \E p \in Procs : ShutdownWake(p)
    \/ \E p \in Procs : ShutdownInvoke(p)
    \/ \E p \in Procs : ShutdownReturn(p)
    \/ \E p \in Procs : CloseCall(p)
    \/ \E p \in Procs : CloseEnter(p)
    \/ \E p \in Procs : CloseWake(p)
    \/ \E p \in Procs : CloseChan(p)
    \/ \E p \in Procs : CloseUnregister(p)

SpecLife == Init /\ [][NextLife]_vars

(***************************************************************************)
(* Requests through the rate limiter                                       *)
(***************************************************************************)

\* a request of key reaches limiter.allow
Allow(key) ==
    /\ limiter.made
    /\ Len(decisions) < MaxRequests
    /\ LET a == allow(limiter, key, clock)
       IN /\ limiter' = a.limiter
          /\ decisions' = Append(decisions,
                                  [key |-> key, ok |-> a.ok, at |-> clock,
                                   out |-> RateLimitHandler(a.ok, Return("data", 200, "none"))])
    /\ UNCHANGED <<cleanup, clock, proc, call>>
    /\ UNCHANGED routing
    /\ UNCHANGED direct

\* time passes
Tick ==
    /\ clock < MaxClock
    /\ clock' = clock + 1
    /\ UNCHANGED <<cleanup, limiter, decisions, proc, call>>
    /\ UNCHANGED routing
    /\ UNCHANGED direct

NextLimiter ==
    \/ \E rate \in Rates, burst \in 0..MaxCapacity : RateLimit(rate, burst)
    \/ \E key \in Keys : Allow(key)
    \/ Tick

SpecLimiter == Init /\ [][NextLimiter]_vars

(***************************************************************************)
(* The cleanup loop of a limiter                                           *)
(***************************************************************************)
\* the ticker of cleanupLoop fires: one cleanup pass under rl.mu
CleanupPass ==
    /\ limiter.loop = "select"
    /\ limiter.passes < MaxPasses
    /\ limiter' = [cleanupPass(limiter, clock) EXCEPT !.passes = @ + 1]
    /\ UNCHANGED <<cleanup, clock, decisions, proc, call>>
    /\ UNCHANGED routing
    /\ UNCHANGED direct

\* cleanupLoop receives from the closed channel rl.done and returns
LoopExit ==
    /\ limiter.loop = "select"
    /\ limiter.done = "closed"
    /\ limiter' = [limiter EXCEPT !.loop = "stopped"]
    /\ UNCHANGED <<cleanup, clock, decisions, proc, call>>
    /\ UNCHANGED routing
    /\ UNCHANGED direct

\* a step of a Shutdown or Close call in progress by goroutine p
LifeStep(p) ==
    \/ ShutdownWake(p)
    \/ ShutdownInvoke(p)
    \/ ShutdownReturn(p)
    \/ CloseEnter(p)
    \/ CloseWake(p)
    \/ CloseChan(p)
    \/ CloseUnregister(p)

\* Shutdown and Close calls next to the cleanup loop of one limiter, made
\* with or without the router
NextLoop ==
    \/ RateLimitWithRouter(1, 1)
    \/ RateLimit(1, 1)
    \/ RegisterCleanup("cb")
    \/ \E p \in Procs : ShutdownEnter(p)
    \/ \E p \in Procs : CloseCall(p)
    \/ \E p \in Procs : LifeStep(p)
    \/ CleanupPass
    \/ LoopExit

\* a goroutine that can take a step eventually takes one, the cleanup
\* goroutine included: its select returns once rl.done is closed
SpecLoop ==
    /\ Init /\ [][NextLoop]_vars
    /\ \A p \in Procs : WF_vars(LifeStep(p))
    /\ WF_vars(LoopExit)

\* no request arrives for more than the cleanup interval
Idle ==
    /\ clock <= MaxClock
    /\ clock' = clock + CleanupTicks + 1
    /\ UNCHANGED <<cleanup, limiter, decisions, proc, call>>
    /\ UNCHANGED routing
    /\ UNCHANGED direct

\* requests, time and cleanup passes
NextEvict ==
    \/ \E rate \in Rates, burst \in 0..MaxCapacity : RateLimit(rate, burst)
    \/ \E key \in Keys : Allow(key)
    \/ Tick
    \/ Idle
    \/ CleanupPass

SpecEvict == Init /\ [][NextEvict]_vars

(***************************************************************************)
(* The registry of limiters and ShutdownAllRateLimiters                    *)
(***************************************************************************)
\* the limiters in the registry
InRegistry == {l \in LimiterIds : registry.limiters[l].registered}

\* the orders in which a range over the registry may visit its entries
RangeOrders(S) ==
    {s \in UNION {[1..n -> S] : n \in {Cardinality(S)}} :
        \A i, j \in DOMAIN s : i # j => s[i] # s[j]}

\* RateLimit: NewRateLimiter and registerLimiter, which holds registryMu
RegisterLimiter(l) ==
    /\ ~registry.limiters[l].made
    /\ registry.mu = "free"
    /\ registry' = [registry EXCEPT !.limiters[l].made = TRUE, !.limiters[l].registered = TRUE]
    /\ UNCHANGED <<tr, pool, routing, aux>>

\* ShutdownAllRateLimiters() is called
ShutdownAllCall(p) ==
    /\ registry.g[p].pc = "idle"
    /\ registry.g[p].n < MaxCalls
    /\ registry' = [registry EXCEPT !.g[p] = [IdleCaller EXCEPT !.pc = "sa_lock", !.n = registry.g[p].n + 1]]
    /\ UNCHANGED <<tr, pool, routing, aux>>

\* registryMu.Lock()
ShutdownAllLock(p) ==
    /\ registry.g[p].pc = "sa_lock"
    /\ registry.mu = "free"
    /\ registry' = [registry EXCEPT !.mu = p, !.g[p].pc = "sa_range"]
    /\ UNCHANGED <<tr, pool, routing, aux>>

\* the range over the registry collects its limiters, in any order
ShutdownAllRange(p) ==
    /\ registry.g[p].pc = "sa_range"
    /\ \E s \in RangeOrders(InRegistry) :
          registry' = [registry EXCEPT !.g[p].limiters = s, !.g[p].pc = "sa_unlock"]
    /\ UNCHANGED <<tr, pool, routing, aux>>

\* a ShutdownAllRateLimiters that keeps registryMu while it closes
ShutdownAllKeepLock(p) ==
    /\ registry.g[p].pc = "sa_unlock"
    /\ registry' = [registry EXCEPT !.g[p].pc = "sa_loop", !.g[p].i = 1]
    /\ UNCHANGED <<tr, pool, routing, aux>>

\* registryMu.Unlock()
ShutdownAllUnlock(p) ==
    /\ registry.g[p].pc = "sa_unlock"
    /\ registry' = [registry EXCEPT !.mu = "free", !.g[p].pc = "sa_loop", !.g[p].i = 1]
    /\ UNCHANGED <<tr, pool, routing, aux>>

\* the loop over the collected limiters: rl.Close() for the next one
ShutdownAllClose(p) ==
    /\ registry.g[p].pc = "sa_loop"
    /\ registry.g[p].i <= Len(registry.g[p].limiters)
    /\ registry' = [registry EXCEPT !.g[p].rl = registry.g[p].limiters[registry.g[p].i],
                           !.g[p].i = @ + 1,
                           !.g[p].ret = "sa_loop",
                           !.g[p].pc = "cl_once"]
    /\ UNCHANGED <<tr, pool, routing, aux>>

\* the loop is over: ShutdownAllRateLimiters returns
ShutdownAllReturn(p) ==
    /\ registry.g[p].pc = "sa_loop"
    /\ registry.g[p].i > Len(registry.g[p].limiters)
    /\ registry' = [registry EXCEPT !.g[p].pc = "idle"]
    /\ UNCHANGED <<tr, pool, routing, aux>>

\* rl.Close() is called directly on a limiter
LimiterClose(p, l) ==
    /\ registry.g[p].pc = "idle"
    /\ registry.g[p].n < MaxCalls
    /\ registry.limiters[l].made
    /\ registry' = [registry EXCEPT !.g[p] = [IdleCaller EXCEPT !.pc = "cl_once", !.rl = l,
                                                      !.n = registry.g[p].n + 1]]
    /\ UNCHANGED <<tr, pool, routing, aux>>

\* rl.closeOnce.Do(...)
LimiterCloseOnce(p) ==
    /\ registry.g[p].pc = "cl_once"
    /\ LET d == OnceDo(registry.limiters[registry.g[p].rl].closeOnce)
       IN registry' = [registry EXCEPT
                    !.g[p].pc = IF d = "run" THEN "cl_chan"
                                ELSE IF d = "wait" THEN "cl_wait" ELSE registry.g[p].ret,
                    !.limiters[registry.g[p].rl].closeOnce = IF d = "run" THEN "running" ELSE @]
    /\ UNCHANGED <<tr, pool, routing, aux>>

\* a Close call that waited in closeOnce.Do returns
LimiterCloseWake(p) ==
    /\ registry.g[p].pc = "cl_wait"
    /\ registry.limiters[registry.g[p].rl].closeOnce = "done"
    /\ registry' = [registry EXCEPT !.g[p].pc = registry.g[p].ret]
    /\ UNCHANGED <<tr, pool, routing, aux>>

\* close(rl.done): closing a closed channel panics
LimiterCloseChan(p) ==
    /\ registry.g[p].pc = "cl_chan"
    /\ IF registry.limiters[registry.g[p].rl].done = "closed"
       THEN registry' = [registry EXCEPT !.fault = TRUE, !.g[p].pc = "panicked"]
       ELSE registry' = [registry EXCEPT !.limiters[registry.g[p].rl].done = "closed",
                               !.g[p].pc = "un_lock"]
    /\ UNCHANGED <<tr, pool, routing, aux>>

\* unregisterLimiter(rl): registryMu.Lock()
UnregisterLock(p) ==
    /\ registry.g[p].pc = "un_lock"
    /\ registry.mu = "free"
    /\ registry' = [registry EXCEPT !.mu = p, !.g[p].pc = "un_delete"]
    /\ UNCHANGED <<tr, pool, routing, aux>>

\* delete(rateLimiterRegistry, rl), registryMu.Unlock(); closeOnce.Do and
\* Close return
UnregisterDelete(p) ==
    /\ registry.g[p].pc = "un_delete"
    /\ registry' = [registry EXCEPT !.limiters[registry.g[p].rl].registered = FALSE,
                           !.limiters[registry.g[p].rl].closeOnce = "done",
                           !.mu = "free",
                           !.g[p].pc = registry.g[p].ret]
    /\ UNCHANGED <<tr, pool, routing, aux>>

\* a step of a call in progress by goroutine p
RegistryStep(p) ==
    \/ ShutdownAllLock(p)
    \/ ShutdownAllRange(p)
    \/ ShutdownAllUnlock(p)
    \/ ShutdownAllClose(p)
    \/ ShutdownAllReturn(p)
    \/ LimiterCloseOnce(p)
    \/ LimiterCloseWake(p)
    \/ LimiterCloseChan(p)
    \/ UnregisterLock(p)
    \/ UnregisterDelete(p)

NextRegistry ==
    \/ \E l \in LimiterIds : RegisterLimiter(l)
    \/ \E p \in Procs : ShutdownAllCall(p)
    \/ \E p \in Procs, l \in LimiterIds : LimiterClose(p, l)
    \/ \E p \in Procs : RegistryStep(p)

\* every goroutine that can take a step of its call eventually takes one
SpecRegistry ==
    Init /\ [][NextRegistry]_vars /\ \A p \in Procs : WF_vars(RegistryStep(p))

(***************************************************************************)
(* A tree used directly                                                    *)
(***************************************************************************)

\* the root of the tree: the node newTree allocated
TreeRoot == 1

\* t.insert(pattern, route) for a new route
TreeInsert(pattern) ==
    /\ Len(tr.routes) < MaxInserts
    /\ ~tr.heap.fault
    /\ tr' = [tr EXCEPT !.heap = treeInsert(tr.heap, TreeRoot, pattern, Len(tr.routes) + 1),
                        !.prev = tr.heap,
                        !.last = NoSearch,
                        !.routes = Append(tr.routes, pattern)]
    /\ UNCHANGED <<pool, registry>>
    /\ UNCHANGED routing
    /\ UNCHANGED aux

\* t.search(path)
TreeSearch(path) ==
    /\ tr' = [tr EXCEPT !.last =
                 [path |-> path,
                  route |-> treeSearch(tr.heap.nodes, TreeRoot, path).route,
                  params |-> treeSearch(tr.heap.nodes, TreeRoot, path).params,
                  done |-> TRUE]]
    /\ UNCHANGED <<pool, registry>>
    /\ UNCHANGED routing
    /\ UNCHANGED aux

NextTree ==
    \/ \E pattern \in TreePatterns : TreeInsert(pattern)
    \/ \E path \in TreePaths : TreeSearch(path)

SpecTree == Init /\ [][NextTree]_vars

\* the tree with patterns and paths that have empty segments
NextTreeEdge ==
    \/ \E pattern \in EdgePatterns : TreeInsert(pattern)
    \/ \E path \in EdgePaths : TreeSearch(path)

SpecTreeEdge == Init /\ [][NextTreeEdge]_vars

(***************************************************************************)
(* Requests through the context pool                                       *)
(***************************************************************************)
\* contextPool.Get: a pooled context, or a new one; the request owns it
PoolGet(p) ==
    /\ pool.req[p].pc = "idle"
    /\ pool.served < MaxPoolRequests
    /\ \/ \E i \in 1..Len(pool.ctxs) :
             /\ pool.ctxs[i].owner = ""
             /\ pool' = [pool EXCEPT !.ctxs[i].owner = p,
                                     !.ctxs[i].uses = @ + 1,
                                     !.req[p] = [pc |-> "got", ctx |-> i],
                                     !.served = @ + 1]
       \/ pool' = [pool EXCEPT !.ctxs = Append(@, [c |-> NewContext, owner |-> p,
                                                    uses |-> 1]),
                               !.req[p] = [pc |-> "got", ctx |-> Len(pool.ctxs) + 1],
                               !.served = @ + 1]
    /\ UNCHANGED <<tr, registry, routing, aux>>

\* the router binds the n path parameters of the matched route
PoolBind(p, n) ==
    /\ pool.req[p].pc = "got"
    /\ pool' = [pool EXCEPT
                  !.ctxs[pool.req[p].ctx].c.PathParams =
                      WriteKeys(@, n, pool.ctxs[pool.req[p].ctx].uses),
                  !.req[p].pc = "bound"]
    /\ UNCHANGED <<tr, registry, routing, aux>>

\* the chain runs and sets n values on the context
PoolSet(p, n) ==
    /\ pool.req[p].pc = "bound"
    /\ pool' = [pool EXCEPT
                  !.ctxs[pool.req[p].ctx].c.values =
                      WriteKeys(@, n, pool.ctxs[pool.req[p].ctx].uses),
                  !.req[p].pc = "handled"]
    /\ UNCHANGED <<tr, registry, routing, aux>>

\* the request is over: reset the context
PoolReset(p) ==
    /\ pool.req[p].pc = "handled"
    /\ pool' = [pool EXCEPT
                  !.ctxs[pool.req[p].ctx].c = reset(@),
                  !.req[p].pc = "reset"]
    /\ UNCHANGED <<tr, registry, routing, aux>>

\* contextPool.Put: the context goes back to the pool
PoolPut(p) ==
    /\ pool.req[p].pc = "reset"
    /\ pool' = [pool EXCEPT !.ctxs[pool.req[p].ctx].owner = "",
                            !.req[p] = IdleHandler]
    /\ UNCHANGED <<tr, registry, routing, aux>>

NextPool ==
    \/ \E p \in Handlers : PoolGet(p)
    \/ \E p \in Handlers, n \in KeyCounts : PoolBind(p, n)
    \/ \E p \in Handlers, n \in KeyCounts : PoolSet(p, n)
    \/ \E p \in Handlers : PoolReset(p)
    \/ \E p \in Handlers : PoolPut(p)

SpecPool == Init /\ [][NextPool]_vars

(***************************************************************************)
(* One request through a middleware or a typed-handler wrapper              *)
(***************************************************************************)

\* a request with the Authorization header authHeader reaches
\* Auth(validateToken)(next), validateToken accepting the tokens of valid
ApplyAuth(valid, authHeader, nx) ==
    /\ call.mw = "none"
    /\ call' = [mw |-> "Auth",
                in |-> [valid |-> valid, authHeader |-> authHeader, nx |-> nx],
                out |-> Auth(valid, authHeader, nx), req |-> NoTyped]
    /\ UNCHANGED <<cleanup, limiter, clock, decisions, proc>>
    /\ UNCHANGED routing
    /\ UNCHANGED direct

\* a request of method and Origin header origin reaches CORS(config)(next)
ApplyCORS(config, method, origin, nx) ==
    /\ call.mw = "none"
    /\ call' = [mw |-> "CORS",
                in |-> [config |-> config, method |-> method, origin |-> origin, nx |-> nx],
                out |-> CORS(config, method, origin, nx), req |-> NoTyped]
    /\ UNCHANGED <<cleanup, limiter, clock, decisions, proc>>
    /\ UNCHANGED routing
    /\ UNCHANGED direct

\* a request reaches Recovery()(next)
ApplyRecovery(nx) ==
    /\ call.mw = "none"
    /\ call' = [mw |-> "Recovery", in |-> [nx |-> nx],
                out |-> Recovery(nx), req |-> NoTyped]
    /\ UNCHANGED <<cleanup, limiter, clock, decisions, proc>>
    /\ UNCHANGED routing
    /\ UNCHANGED direct

\* a request with the X-Request-ID header requestID reaches RequestID()(next)
ApplyRequestID(requestID, nx) ==
    /\ call.mw = "none"
    /\ call' = [mw |-> "RequestID", in |-> [requestID |-> requestID, nx |-> nx],
                out |-> RequestID(requestID, "generated", nx), req |-> NoTyped]
    /\ UNCHANGED <<cleanup, limiter, clock, decisions, proc>>
    /\ UNCHANGED routing
    /\ UNCHANGED direct

\* a request of path reaches Logger(config)(next)
ApplyLogger(skipPaths, path, nx) ==
    /\ call.mw = "none"
    /\ call' = [mw |-> "Logger", in |-> [skipPaths |-> skipPaths, path |-> path, nx |-> nx],
                out |-> Logger(skipPaths, path, nx), req |-> NoTyped]
    /\ UNCHANGED <<cleanup, limiter, clock, decisions, proc>>
    /\ UNCHANGED routing
    /\ UNCHANGED direct

\* a request reaches the handler of a rate-limit middleware, whose limiter
\* allows it or not
ApplyRateLimit(allowed, nx) ==
    /\ call.mw = "none"
    /\ call' = [mw |-> "RateLimit", in |-> [allowed |-> allowed, nx |-> nx],
                out |-> RateLimitHandler(allowed, nx), req |-> NoTyped]
    /\ UNCHANGED <<cleanup, limiter, clock, decisions, proc>>
    /\ UNCHANGED routing
    /\ UNCHANGED direct

\* a request reaches WithTyped(handler, params, body, query)
ApplyWithTyped(params, body, query, nx) ==
    /\ call.mw = "none"
    /\ call' = [mw |-> "WithTyped",
                in |-> [params |-> params, body |-> body, query |-> query, nx |-> nx],
                out |-> WithTyped(params, body, query, nx).out,
                req |-> WithTyped(params, body, query, nx).req]
    /\ UNCHANGED <<cleanup, limiter, clock, decisions, proc>>
    /\ UNCHANGED routing
    /\ UNCHANGED direct

NextMiddleware ==
    \/ \E valid \in SUBSET Tokens, h \in AuthHeaders, nx \in NextOutcomes :
          ApplyAuth(valid, h, nx)
    \/ \E config \in CORSConfigs, method \in RequestMethods, origin \in Origins,
          nx \in NextOutcomes : ApplyCORS(config, method, origin, nx)
    \/ \E nx \in NextOutcomes : ApplyRecovery(nx)
    \/ \E requestID \in RequestIDs, nx \in NextOutcomes : ApplyRequestID(requestID, nx)
    \/ \E skipPaths \in SUBSET LogPaths, path \in LogPaths, nx \in NextOutcomes :
          ApplyLogger(skipPaths, path, nx)
    \/ \E allowed \in BOOLEAN, nx \in NextOutcomes : ApplyRateLimit(allowed, nx)
    \/ \E params \in ParamsValidators, body \in BodyValidators, query \in QueryValidators,
          nx \in NextOutcomes : ApplyWithTyped(params, body, query, nx)

SpecMiddleware == Init /\ [][NextMiddleware]_vars

(***************************************************************************)
(* Vocabulary of the properties                                            *)
(***************************************************************************)

RECURSIVE Segments(_)
\* the '/'-delimited segments of a path or pattern
Segments(path) ==
    LET p == TrimPrefix(path)
    IN IF p = <<>> THEN <<>>
       ELSE <<SegmentOf(p)>> \o
            (IF RemainingOf(p) = <<>> THEN <<>> ELSE Segments(RemainingOf(p)))

IsParamSegment(seg) == Len(seg) > 0 /\ seg[1] = ":"

\* the pattern matches the path segment by segment
Matches(pattern, path) ==
    LET ps == Segments(pattern)
        xs == Segments(path)
    IN /\ Len(ps) = Len(xs)
       /\ \A i \in 1..Len(ps) :
             IF IsParamSegment(ps[i]) THEN xs[i] # <<>> ELSE ps[i] = xs[i]

\* the bindings the pattern's parameter segments take from the path
ExpectedParams(pattern, path) ==
    LET ps == Segments(pattern)
        xs == Segments(path)
    IN {<<Drop(ps[i], 1), xs[i]>> : i \in {j \in 1..Len(ps) : IsParamSegment(ps[j])}}

\* the pattern's parameter names are distinct
DistinctParamNames(pattern) ==
    LET ps == Segments(pattern)
    IN \A i, j \in 1..Len(ps) :
          IsParamSegment(ps[i]) /\ IsParamSegment(ps[j]) /\ ps[i] = ps[j] => i = j

\* the published table and the outcome of a query against it
Current == tables[table]
Dispatch(q) == Serve(Current, heap.nodes, q[1], q[2])

\* route r is the last one registered for its (method, pattern)
Latest(r) == \A r2 \in (r + 1)..Len(routes) : routes[r2] # routes[r]

RECURSIVE MiddlewareUpTo(_)
\* the middleware passed to the Use calls among the first i logged calls
MiddlewareUpTo(i) ==
    IF i = 0 THEN <<>>
    ELSE MiddlewareUpTo(i - 1) \o (IF log[i].op = "use" THEN log[i].ms ELSE <<>>)

\* the middleware passed to Use before route r was registered
MiddlewareBefore(r) ==
    MiddlewareUpTo((CHOOSE i \in 1..Len(log) : log[i].op = "add" /\ log[i].route = r) - 1)

(***************************************************************************)
(* Properties                                                              *)
(***************************************************************************)

\* C1: a finished dispatch has loaded the table reference once, and its
\* outcome (found or not, route, parameters, chain) is the outcome its query
\* had against one single table version, as recorded when that version was
\* stored, that version being one that was published between the dispatch's
\* start and its end.
C1_SnapshotConsistency ==
    \A d \in Dispatchers :
        dp[d].pc = "done" =>
            /\ dp[d].ver \in dp[d].first..dp[d].last
            /\ dp[d].result = snap[dp[d].ver][<<dp[d].method, dp[d].path>>]

\* a dispatch finished after a newer table was published, with a route found
\* in the older table it had loaded, the newer table resolving differently
C1_Witness ==
    \E d \in Dispatchers :
        /\ dp[d].pc = "done"
        /\ dp[d].ver < dp[d].last
        /\ dp[d].result.status = "found"
        /\ dp[d].result # snap[dp[d].last][<<dp[d].method, dp[d].path>>]

Resolvable(r) == \E q \in Queries : Dispatch(q).route = r

\* C3: AddRoute calls are mutually exclusive (at most one registration is
\* between loading the current table and storing its successor), and once
\* every AddRoute call has returned, each route registered for a distinct
\* (method, pattern) is resolvable in the published table: none is lost.
C3_NoRegistrationLost ==
    /\ Cardinality({w \in Writers : wr[w].pc = "locked"}) <= 1
    /\ (\A w \in Writers : wr[w].pc = "idle") =>
          \A r \in 1..Len(routes) : Latest(r) => Resolvable(r)

\* C4: a dispatch that started after AddRoute(method, pattern) had returned,
\* for a path that the pattern matches, finds a route and never ends not
\* found; and every dispatch completes against the table it loaded, also
\* when a newer table has been published since.
C4_VisibleAfterReturn ==
    \A d \in Dispatchers :
        dp[d].pc = "done" =>
            /\ \A r \in 1..dp[d].nroutes :
                  (routes[r].method = dp[d].method
                   /\ Matches(routes[r].pattern, dp[d].path))
                  => dp[d].result.status = "found"
            /\ dp[d].result = snap[dp[d].ver][<<dp[d].method, dp[d].path>>]

\* C5: static priority.  When the last route registered for a static pattern
\* and a route registered for a parameterized pattern of the same method
\* both match the request path, the request resolves to the static route
\* and binds no parameter.
C5_StaticPriority ==
    \A q \in Queries : \A rs, rp \in 1..Len(routes) :
        (/\ Latest(rs) /\ routes[rs].method = q[1] /\ routes[rp].method = q[1]
         /\ ~IsDynamic(routes[rs].pattern) /\ IsDynamic(routes[rp].pattern)
         /\ Matches(routes[rs].pattern, q[2]) /\ Matches(routes[rp].pattern, q[2]))
        => /\ Dispatch(q).status = "found"
           /\ Dispatch(q).route = rs
           /\ Dispatch(q).params.map = {}

\* a static and a parameterized route of one method match the same path,
\* which resolves to the static one
C5_Witness ==
    \E q \in Queries : \E rs, rp \in 1..Len(routes) :
        /\ Latest(rs) /\ routes[rs].method = q[1] /\ routes[rp].method = q[1]
        /\ ~IsDynamic(routes[rs].pattern) /\ IsDynamic(routes[rp].pattern)
        /\ Matches(routes[rs].pattern, q[2]) /\ Matches(routes[rp].pattern, q[2])
        /\ Dispatch(q).route = rs

\* C6: parameter extraction.  When a request resolves to the route of a
\* registered pattern with distinct parameter names that its path
\* instantiates, the parameter mapping has exactly one entry per parameter
\* segment of the pattern, under the parameter's name, bound to the raw text
\* of the corresponding path segment, and no other entry.
C6_ParameterExtraction ==
    \A q \in Queries : \A r \in 1..Len(routes) :
        (/\ Latest(r) /\ routes[r].method = q[1]
         /\ DistinctParamNames(routes[r].pattern)
         /\ Matches(routes[r].pattern, q[2])
         /\ Dispatch(q).route = r)
        => Dispatch(q).params.map = ExpectedParams(routes[r].pattern, q[2])

\* the routes the published table lists for a method: those of its
\* exact-match index and those collected from its tree
Listed(m) ==
    {kv[2] : kv \in Current.exactRoutes[m]}
    \cup {treeCollectRoutes(heap.nodes, Current.trees[m])[i] :
            i \in 1..Len(treeCollectRoutes(heap.nodes, Current.trees[m]))}

\* C7: re-registration is last-write-wins.  After the same (method, pattern)
\* has been registered twice, the published table lists exactly one route
\* for that (method, pattern), and every request of that method whose path
\* the pattern matches, and no other registered pattern does, runs the
\* handler of the second registration.
C7_LastWriteWins ==
    \A r1, r2 \in 1..Len(routes) :
        (r1 < r2 /\ routes[r1] = routes[r2] /\ Latest(r2)) =>
            /\ Cardinality({r \in Listed(routes[r2].method) : routes[r] = routes[r2]}) = 1
            /\ \A path \in Paths :
                  (/\ Matches(routes[r2].pattern, path)
                   /\ \A r \in 1..Len(routes) :
                         (routes[r].method = routes[r2].method
                          /\ Matches(routes[r].pattern, path))
                         => routes[r].pattern = routes[r2].pattern) =>
                      \E i \in 1..Len(Dispatch(<<routes[r2].method, path>>).chain) :
                          Dispatch(<<routes[r2].method, path>>).chain[i]
                              = <<"handler", "", r2>>

\* C8: chain composition order.  The chain that runs for a resolved route is
\* m0(m1(...mn-1(h)...)) for the middleware m0..mn-1 passed to Use before
\* the route was registered: the pre-logic of m0, ..., mn-1 in that order,
\* then the terminal handler, then the post-logic in the reverse order; with
\* no middleware the chain is the handler itself.
C8_ChainOrder ==
    \A q \in Queries :
        LET d == Dispatch(q)
        IN d.status = "found" =>
             LET c == d.chain
                 ms == MiddlewareBefore(d.route)
                 n == Len(ms)
             IN /\ Len(c) = 2 * n + 1
                /\ \A i \in 1..n : c[i] = <<"pre", ms[i], 0>>
                /\ c[n + 1] = <<"handler", "", d.route>>
                /\ \A i \in 1..n : c[2 * n + 2 - i] = <<"post", ms[i], 0>>

\* a route registered after Use(A, B) is resolved: A, B, handler, B, A
C8_Witness ==
    \E q \in Queries : \E i \in 1..Len(log) :
        /\ log[i].op = "use" /\ log[i].ms = <<"A", "B">>
        /\ Dispatch(q).status = "found"
        /\ Dispatch(q).chain = << <<"pre", "A", 0>>, <<"pre", "B", 0>>,
                                  <<"handler", "", Dispatch(q).route>>,
                                  <<"post", "B", 0>>, <<"post", "A", 0>> >>

\* the middleware whose pre-logic a chain runs, in order
PreLogic(c) == SelectSeq(c, LAMBDA e : e[1] = "pre")

\* C9: Use affects only the routes registered after it.  Every resolved
\* route is dispatched through exactly the middleware passed to the Use calls
\* that preceded its registration, in call order, and through none of a
\* later Use call.
C9_UseAffectsLaterRoutes ==
    \A q \in Queries :
        LET d == Dispatch(q)
        IN d.status = "found" =>
             LET ms == MiddlewareBefore(d.route)
             IN PreLogic(d.chain) = [i \in 1..Len(ms) |-> <<"pre", ms[i], 0>>]

\* one route registered before a Use call and one registered after it are
\* both resolved, the first without the middleware of that call
C9_Witness ==
    \E q1, q2 \in Queries : \E i \in 1..Len(log) :
        /\ log[i].op = "use"
        /\ Dispatch(q1).status = "found" /\ Dispatch(q2).status = "found"
        /\ \E j \in 1..(i - 1) : log[j].op = "add" /\ log[j].route = Dispatch(q1).route
        /\ \E j \in (i + 1)..Len(log) : log[j].op = "add" /\ log[j].route = Dispatch(q2).route
        /\ Len(Dispatch(q1).chain) < Len(Dispatch(q2).chain)

\* C10: a request for which neither the exact-match index nor the method's
\* tree yields a route ends not found (404), never in a fault, and the
\* not-found handler runs inside the chain of every middleware passed to Use
\* so far, in call order.
C10_NotFoundThroughMiddleware ==
    \A q \in Queries :
        (/\ ~HasKey(Current.exactRoutes[q[1]], q[2])
         /\ (Current.trees[q[1]] = 0
             \/ treeSearch(heap.nodes, Current.trees[q[1]], q[2]).route = 0))
        => LET ms == MiddlewareUpTo(Len(log))
               n == Len(ms)
               c == Dispatch(q).chain
           IN /\ Dispatch(q).status = "notfound"
              /\ Len(c) = 2 * n + 1
              /\ \A i \in 1..n : c[i] = <<"pre", ms[i], 0>>
              /\ c[n + 1] = <<"notfound", "", 0>>
              /\ \A i \in 1..n : c[2 * n + 2 - i] = <<"post", ms[i], 0>>

\* with middleware in use and a route registered, a request misses
C10_Witness ==
    \E q \in Queries :
        /\ Len(routes) > 0
        /\ Len(Current.middlewares) = 2
        /\ Current.trees[q[1]] # 0
        /\ Dispatch(q).status = "notfound"


(***************************************************************************)
(* Shutdown and Close                                                      *)
(***************************************************************************)

\* the callbacks registered with RegisterCleanup
Registered == {cleanup.funcs[i] : i \in 1..Len(cleanup.funcs)}

\* the number of Shutdown calls made so far
ShutdownCalls == proc["p1"].sd + proc["p2"].sd

\* the number of Close calls that are inside or past closeOnce.Do
CloseCalls == proc["p1"].n + proc["p2"].n - ShutdownCalls + cleanup.invoked["close"]

C20_CloseOnce ==
    /\ ~limiter.fault
    /\ \A p \in Procs : proc[p].pc # "panicked"
    /\ limiter.closes <= 1
    /\ limiter.unregs <= 1
    /\ limiter.closeOnce = "done"
       => /\ limiter.closes = 1 /\ limiter.unregs = 1
          /\ limiter.done = "closed" /\ ~limiter.registered
    /\ limiter.closeOnce = "fresh"
       => limiter.closes = 0 /\ limiter.unregs = 0 /\ limiter.done = "open"

\* Close was called three times, once through Shutdown, and all have
\* returned
C20_Witness ==
    /\ CloseCalls >= 3
    /\ cleanup.invoked["close"] = 1
    /\ \A p \in Procs : proc[p].pc = "idle"
    /\ limiter.closeOnce = "done"
    /\ limiter.closes = 1
    /\ limiter.unregs = 1


(***************************************************************************)
(* Rate limiting                                                           *)
(***************************************************************************)

\* the decisions made for the requests of one key, in order
KeyDecisions(key) == SelectSeq(decisions, LAMBDA d : d.key = key)

\* C19: with a burst capacity of at least one, of the requests of a key made
\* at the time of its first request the first capacity ones are allowed and
\* reach the next handler, and every one after them is rejected with status
\* 429 and code rate_limit_exceeded.
C19_BurstLimit ==
    limiter.capacity >= 1 =>
      \A key \in Keys :
        LET ds == KeyDecisions(key)
        IN \A j \in 1..Len(ds) :
              ds[j].at = ds[1].at =>
                /\ ds[j].ok <=> j <= limiter.capacity
                /\ ds[j].ok => ds[j].out.calls = 1 /\ ds[j].out.status = 200
                /\ ~ds[j].ok => /\ ds[j].out.calls = 0
                                /\ ds[j].out.status = 429
                                /\ ds[j].out.err = "rate_limit_exceeded"

\* with capacity two and a positive rate a key makes three requests at one
\* time, the third is rejected, and another key's request in between is
\* allowed
C19_Witness ==
    /\ limiter.capacity = 2
    /\ limiter.rate > 0
    /\ Len(decisions) = 4
    /\ LET ds == KeyDecisions("k1")
       IN /\ Len(ds) = 3
          /\ ds[3].at = ds[1].at
          /\ ds[1].ok /\ ds[2].ok /\ ~ds[3].ok
          /\ ds[3].out.status = 429
    /\ decisions[2].key = "k2"
    /\ decisions[2].ok


(***************************************************************************)
(* Groups and compiled chains                                              *)
(***************************************************************************)

\* the routes table t lists for a method: those of its exact-match index and
\* those collected from its tree
ListedIn(t, m) ==
    {kv[2] : kv \in t.exactRoutes[m]}
    \cup {treeCollectRoutes(heap.nodes, t.trees[m])[i] :
            i \in 1..Len(treeCollectRoutes(heap.nodes, t.trees[m]))}

\* C12: in every table published so far, after any sequence of AddRoute, Use
\* and Group registrations, every route listed by the exact-match index or
\* by the tree of any method has an entry in the table's compiled-chain map.
C12_ChainForEveryRoute ==
    \A v \in 1..Len(tables) : \A m \in Methods :
        \A r \in ListedIn(tables[v], m) : HasKey(tables[v].chains, r)

\* the published table lists a static route in its index and two routes in
\* its tree, registered through groups and on the router, with middleware
\* in use, and each has its chain
C12_Witness ==
    /\ Len(Current.middlewares) > 0
    /\ \E kv \in Current.exactRoutes["GET"] : HasKey(Current.chains, kv[2])
    /\ Len(treeCollectRoutes(heap.nodes, Current.trees["GET"])) >= 2
    /\ \E i, j \in 1..Len(log) :
          /\ log[i].op = "add" /\ log[i].groups = <<>>
          /\ log[j].op = "add" /\ Len(log[j].groups) = 2
          /\ {log[i].route, log[j].route} \subseteq ListedIn(Current, "GET")
          /\ HasKey(Current.chains, log[i].route)
          /\ HasKey(Current.chains, log[j].route)

RECURSIVE GroupPrefix(_, _)
\* the prefixes of the Group calls decls[i..], outermost first, concatenated
GroupPrefix(decls, i) ==
    IF i > Len(decls) THEN <<>> ELSE decls[i].prefix \o GroupPrefix(decls, i + 1)

RECURSIVE GroupMiddleware(_, _)
\* the middleware of the Group calls decls[i..], outermost first
GroupMiddleware(decls, i) ==
    IF i > Len(decls) THEN <<>> ELSE decls[i].ms \o GroupMiddleware(decls, i + 1)

\* the middleware a route registered by the i-th logged call runs through:
\* the global ones in use at that call, the groups' from the outermost to
\* the innermost, then the route's own
ExpectedMiddleware(i) ==
    MiddlewareUpTo(i) \o GroupMiddleware(log[i].groups, 1) \o log[i].ms

\* the chain of route r through the middleware ms
ExpectedChain(ms, r) ==
    [i \in 1..(2 * Len(ms) + 1) |->
        IF i <= Len(ms) THEN <<"pre", ms[i], 0>>
        ELSE IF i = Len(ms) + 1 THEN <<"handler", "", r>>
        ELSE <<"post", ms[2 * Len(ms) + 2 - i], 0>>]

\* C13: a route registered through a group, nested or not, is resolvable at
\* the concatenation of the enclosing groups' prefixes and its own pattern:
\* a request whose path that full pattern matches, and no other registered
\* pattern does, resolves to the route; and the route's chain runs the
\* global middleware, then each enclosing group's from the outermost to the
\* innermost, then the route's own, then the handler.
C13_GroupRoutes ==
    \A i \in 1..Len(log) :
        (log[i].op = "add" /\ log[i].groups # <<>> /\ Latest(log[i].route)) =>
            LET r == log[i].route
            IN /\ routes[r].pattern = GroupPrefix(log[i].groups, 1) \o log[i].pattern
               /\ HasKey(Current.chains, r)
               /\ Get(Current.chains, r) = ExpectedChain(ExpectedMiddleware(i), r)
               /\ \A path \in Paths :
                     (/\ Matches(routes[r].pattern, path)
                      /\ \A r2 \in 1..Len(routes) :
                            Matches(routes[r2].pattern, path)
                            => routes[r2].pattern = routes[r].pattern)
                     => /\ Dispatch(<<"GET", path>>).status = "found"
                        /\ Dispatch(<<"GET", path>>).route = r


(***************************************************************************)
(* Middleware                                                              *)
(***************************************************************************)

\* the result of a middleware that returned what the next handler returned
PassedThrough ==
    /\ call.out.calls = 1
    /\ call.out.data = call.in.nx.data
    /\ call.out.status = call.in.nx.status
    /\ call.out.err = call.in.nx.err
    /\ call.out.panic = call.in.nx.panic

\* the Authorization header has the form "Bearer <token>"
IsBearer(h) == Len(h) >= Len(Bearer) + 1 /\ Take(h, Len(Bearer) + 1) = Bearer \o <<" ">>

\* the token of a header of that form
BearerToken(h) == Drop(h, Len(Bearer) + 1)

\* C14: every built-in middleware invokes the next handler at most once per
\* request: not at all when it short-circuits (Auth on a refused request,
\* CORS on a preflight, a rate limiter on a rejected request), otherwise
\* exactly once, and never more than once.
C14_NextAtMostOnce ==
    call.mw \in {"Auth", "CORS", "Recovery", "RequestID", "Logger", "RateLimit"} =>
        /\ call.out.calls \in {0, 1}
        /\ call.mw \in {"Recovery", "RequestID", "Logger"} => call.out.calls = 1
        /\ call.mw = "Auth" => (call.out.calls = 0 <=> call.out.status = 401)
        /\ call.mw = "CORS" => (call.out.calls = 0 <=> call.in.method = "OPTIONS")
        /\ call.mw = "RateLimit" => (call.out.calls = 0 <=> ~call.in.allowed)

\* Logger serves a path it skips: the next handler ran once and nothing was
\* logged
C14_Witness ==
    /\ call.mw = "Logger"
    /\ call.in.path \in call.in.skipPaths
    /\ call.in.nx.panic = "none"
    /\ call.out.calls = 1
    /\ ~call.out.logged

\* C15: Auth invokes the next handler if and only if the Authorization
\* header has the form "Bearer <token>" and validateToken accepts the token;
\* the user is then stored in the context under "user" and the result is the
\* next handler's.  In every other case the result is nil data, status 401
\* and an APIError of code unauthorized, nothing is stored, and
\* validateToken is called only when the header has that form.
C15_AuthBearerOnly ==
    call.mw = "Auth" =>
        LET h == call.in.authHeader
            accepted == IsBearer(h) /\ BearerToken(h) \in call.in.valid
        IN /\ call.out.calls = 1 <=> accepted
           /\ accepted => /\ PassedThrough
                          /\ call.out.store = {<<"user", BearerToken(h)>>}
           /\ ~accepted => /\ call.out.calls = 0
                           /\ call.out.data = "nil"
                           /\ call.out.status = 401
                           /\ call.out.err = "unauthorized"
                           /\ call.out.panic = "none"
                           /\ call.out.store = {}
           /\ call.out.validated = (IF IsBearer(h) THEN 1 ELSE 0)

\* a header of another scheme carries a token validateToken would accept:
\* the request is refused and validateToken was not called
C15_Witness ==
    /\ call.mw = "Auth"
    /\ ~IsBearer(call.in.authHeader)
    /\ Len(SplitN2(call.in.authHeader)) = 2
    /\ SplitN2(call.in.authHeader)[2] \in call.in.valid
    /\ call.out.status = 401
    /\ call.out.calls = 0
    /\ call.out.validated = 0

\* the names of the headers set
HeaderNames(out) == {kv[1] : kv \in out.headers}

\* the headers CORS sets only on a preflight
PreflightHeaders ==
    {"Access-Control-Max-Age", "Access-Control-Allow-Methods", "Access-Control-Allow-Headers"}

\* C16: on a request of method OPTIONS, CORS returns nil data, status 204
\* and no error without invoking the next handler; on any other method it
\* invokes the next handler exactly once and returns its result unchanged,
\* and sets none of Access-Control-Max-Age, Access-Control-Allow-Methods and
\* Access-Control-Allow-Headers.
C16_CORSPreflight ==
    call.mw = "CORS" =>
        IF call.in.method = "OPTIONS"
        THEN /\ call.out.calls = 0
             /\ call.out.data = "nil"
             /\ call.out.status = 204
             /\ call.out.err = "none"
             /\ call.out.panic = "none"
        ELSE /\ PassedThrough
             /\ HeaderNames(call.out) \cap PreflightHeaders = {}

\* a preflight under a configuration with methods, headers and a max age:
\* the three headers are set and the next handler, which would have
\* failed, did not run
C16_Witness ==
    /\ call.mw = "CORS"
    /\ call.in.method = "OPTIONS"
    /\ call.in.nx.err # "none"
    /\ PreflightHeaders \subseteq HeaderNames(call.out)
    /\ call.out.status = 204
    /\ call.out.calls = 0

\* C17: when what Recovery wraps panics, with whatever value, Recovery
\* returns nil data, status 500 and an APIError of code
\* internal_server_error and the panic does not escape; when nothing panics
\* it returns the wrapped handler's data, status and error unchanged.
C17_RecoveryContainsFaults ==
    call.mw = "Recovery" =>
        /\ call.out.panic = "none"
        /\ IF call.in.nx.panic # "none"
           THEN /\ call.out.data = "nil"
                /\ call.out.status = 500
                /\ call.out.err = "internal_server_error"
           ELSE PassedThrough

\* the wrapped handler panics with nil
C17_Witness ==
    /\ call.mw = "Recovery"
    /\ call.in.nx.panic = "nil"
    /\ call.out.status = 500
    /\ call.out.err = "internal_server_error"
    /\ call.out.panic = "none"

\* a validator was supplied and succeeded, or was not supplied
Passes(v) == v \in {"none", "ok"}

\* C18: the three validators of WithTyped are independently optional.  The
\* typed handler is invoked, once, if and only if every supplied validator
\* succeeded; it then receives a value for exactly the supplied parts and
\* nil for each part without a validator.  Otherwise a result of status
\* 400..499 is returned and the handler is not invoked.
C18_TypedOptional ==
    call.mw = "WithTyped" =>
        LET ok == Passes(call.in.params) /\ Passes(call.in.body) /\ Passes(call.in.query)
        IN /\ call.out.calls = (IF ok THEN 1 ELSE 0)
           /\ ok => /\ PassedThrough
                    /\ call.req.Params = "nil" <=> call.in.params = "none"
                    /\ call.req.Body = "nil" <=> call.in.body = "none"
                    /\ call.req.Query = "nil" <=> call.in.query = "none"
           /\ ~ok => /\ call.out.status \in 400..499
                     /\ call.out.err # "none"
                     /\ call.req = NoTyped

\* only a body validator is supplied and succeeds: the handler runs with a
\* body and with nil params and query
C18_Witness ==
    /\ call.mw = "WithTyped"
    /\ call.in.params = "none" /\ call.in.body = "ok" /\ call.in.query = "none"
    /\ call.out.calls = 1
    /\ call.req = [Params |-> "nil", Body |-> "body", Query |-> "nil"]


(***************************************************************************)
(* The tree                                                                *)
(***************************************************************************)

\* the result of searching the tree as it is for a path
Found(path) == treeSearch(tr.heap.nodes, TreeRoot, path)

\* the pattern has a parameter segment
HasParamSegment(pattern) ==
    \E i \in 1..Len(Segments(pattern)) : IsParamSegment(Segments(pattern)[i])

\* C23: lazy parameter allocation.  A search that finds no route returns a
\* nil parameter mapping; a search that finds a route returns a nil mapping
\* when the route's pattern has no parameter segment, so that none was bound
\* on the way, and an allocated mapping holding at least one binding when it
\* has one.
C23_LazyParameters ==
    /\ \A path \in TreePaths :
          IF Found(path).route = 0
          THEN Found(path).params = NilParams
          ELSE /\ Found(path).params.allocated
                    <=> HasParamSegment(tr.routes[Found(path).route])
               /\ Found(path).params.allocated <=> Found(path).params.map # {}
    /\ tr.last.done =>
          /\ tr.last.route = Found(tr.last.path).route
          /\ tr.last.params = Found(tr.last.path).params

\* with /a/b and /a/:x in the tree, /a/b was searched and found without a
\* mapping, /a/5 binds x, and /a/5/6 fails after binding x and yields nil
C23_Witness ==
    /\ tr.last.done
    /\ tr.last.path = <<"/", "a", "/", "b">>
    /\ tr.last.route # 0
    /\ tr.last.params = NilParams
    /\ Found(<<"/", "a", "/", "5">>).params = [allocated |-> TRUE, map |-> {<<<<"x">>, <<"5">>>>}]
    /\ Found(<<"/", "a", "/", "5", "/", "6">>) = [route |-> 0, params |-> NilParams]


\* two patterns differ only in the name of the parameter at one position
DifferOnlyInParamName(p, q) ==
    LET ps == Segments(p)
        qs == Segments(q)
    IN /\ Len(ps) = Len(qs)
       /\ Cardinality({i \in 1..Len(ps) : ps[i] # qs[i]}) = 1
       /\ \A i \in 1..Len(ps) :
             ps[i] # qs[i] => IsParamSegment(ps[i]) /\ IsParamSegment(qs[i])

\* C24: when two patterns that differ only in the parameter name at one
\* position have been inserted, the second insertion has overwritten the
\* parameter slot: a path that the second pattern matches, and no inserted
\* pattern of another shape does, resolves to the second route and binds its
\* segment under the second name.
C24_ParamNameLastWriteWins ==
    \A i, j \in 1..Len(tr.routes) :
        (/\ i < j
         /\ DifferOnlyInParamName(tr.routes[i], tr.routes[j])
         /\ \A k \in (j + 1)..Len(tr.routes) :
               tr.routes[k] # tr.routes[j]
               /\ ~DifferOnlyInParamName(tr.routes[k], tr.routes[j]))
        => \A path \in TreePaths :
              (/\ Matches(tr.routes[j], path)
               /\ \A k \in 1..Len(tr.routes) :
                     Matches(tr.routes[k], path)
                     => (tr.routes[k] = tr.routes[j]
                         \/ DifferOnlyInParamName(tr.routes[k], tr.routes[j])))
              => /\ Found(path).route = j
                 /\ Found(path).params.map = ExpectedParams(tr.routes[j], path)


\* C25: search soundness.  Whenever search returns a route for a path, the
\* pattern the route was inserted with matches the path segment by segment:
\* the same number of segments, every static segment equal to the path's,
\* every parameter segment standing for exactly one path segment.
C25_SearchSoundness ==
    \A path \in TreePaths :
        Found(path).route # 0 => Matches(tr.routes[Found(path).route], path)

\* C26: search completeness.  Whenever some inserted pattern matches a path
\* segment by segment, search returns a route: a static child that matches
\* only a prefix of the segment, or whose subtree holds no route for the
\* rest of the path, does not keep the parameter child from matching.
C26_SearchCompleteness ==
    \A path \in TreePaths :
        (\E r \in 1..Len(tr.routes) : Matches(tr.routes[r], path))
        => Found(path).route # 0


\* the result of searching the tree as it was before the last insertion
FoundBefore(path) == treeSearch(tr.prev.nodes, TreeRoot, path)

\* C27: insertion touches only its own pattern.  For every path that the
\* pattern just inserted does not match segment by segment, search returns
\* the same route and the same parameters after the insertion as before it.
C27_InsertFrame ==
    Len(tr.routes) > 0 =>
        \A path \in TreePaths :
            ~Matches(tr.routes[Len(tr.routes)], path)
            => Found(path) = FoundBefore(path)


\* the nodes of the tree reachable from its root
TreeNodes == Reach(tr.heap.nodes, TreeRoot)

\* the static children of a node
StaticChildren(n) ==
    {tr.heap.nodes[n].children[i] : i \in 1..Len(tr.heap.nodes[n].children)}

\* C28: after any sequence of insertions, at every node of the tree any two
\* static children have different first bytes, every static child has a
\* non-empty prefix and its label is the first byte of its prefix.
C28_DisjointFirstBytes ==
    ~tr.heap.fault =>
        \A n \in TreeNodes :
            /\ Cardinality(StaticChildren(n)) = Len(tr.heap.nodes[n].children)
            /\ \A c \in StaticChildren(n) :
                  /\ tr.heap.nodes[c].nType = static
                  /\ tr.heap.nodes[c].prefix # <<>>
                  /\ tr.heap.nodes[c].label = tr.heap.nodes[c].prefix[1]
            /\ \A c, d \in StaticChildren(n) :
                  c # d => tr.heap.nodes[c].prefix[1] # tr.heap.nodes[d].prefix[1]

\* a child was split (the split node was allocated after the child it took
\* over) and has since got a second static child with another first byte
C28_Witness ==
    \E n \in TreeNodes :
        /\ Cardinality(StaticChildren(n)) >= 2
        /\ \E c \in StaticChildren(n) : c < n /\ tr.heap.nodes[c].paramChild # 0


\* a segment of the wildcard kind
IsWildcardSegment(seg) == Len(seg) > 0 /\ seg[1] = "*"

\* the position of the pattern's first wildcard segment, 0 if it has none
WildcardAt(pattern) ==
    LET ps == Segments(pattern)
        at == {i \in 1..Len(ps) : IsWildcardSegment(ps[i])}
    IN IF at = {} THEN 0 ELSE CHOOSE i \in at : \A j \in at : i <= j

\* the path would match the pattern if its wildcard segment caught the rest
\* of the path
CatchAllMatches(pattern, path) ==
    LET ps == Segments(pattern)
        xs == Segments(path)
        k == WildcardAt(pattern)
    IN /\ k > 0
       /\ Len(xs) >= k
       /\ \A i \in 1..(k - 1) :
             IF IsParamSegment(ps[i]) THEN xs[i] # <<>> ELSE ps[i] = xs[i]

\* C30: search does not match wildcard segments.  A route inserted with a
\* '*name' segment is found for no path by catch-all matching: a path that the
\* pattern would catch resolves to the route only if it spells the pattern
\* out, '*name' included; and when only such routes are in the tree, every
\* other path yields no route and no parameters.
C30_WildcardNotMatched ==
    \A r \in 1..Len(tr.routes) : \A path \in TreePaths :
        (CatchAllMatches(tr.routes[r], path) /\ path # tr.routes[r])
        => /\ Found(path).route # r
           /\ (\A r2 \in 1..Len(tr.routes) : WildcardAt(tr.routes[r2]) > 0)
                 => Found(path) = [route |-> 0, params |-> NilParams]

\* /a/*r is the only pattern in the tree; /a/b/5 was searched and not found;
\* /a/5 is not found; the path /a/*r itself resolves to the route
C30_Witness ==
    /\ tr.routes = << <<"/", "a", "/", "*", "r">> >>
    /\ tr.last.done
    /\ tr.last.path = <<"/", "a", "/", "b", "/", "5">>
    /\ tr.last.route = 0
    /\ Found(<<"/", "a", "/", "5">>).route = 0
    /\ Found(<<"/", "a", "/", "*", "r">>).route = 1


(***************************************************************************)
(* Methods and the two stores of a table                                   *)
(***************************************************************************)

\* the routes registered for a method, in registration order
RoutesOf(m) == SelectSeq([r \in 1..Len(routes) |-> r], LAMBDA r : routes[r].method = m)

\* the patterns registered for a method, in registration order
PatternsOf(m) == [i \in 1..Len(RoutesOf(m)) |-> routes[RoutesOf(m)[i]].pattern]

\* the rank of a route among the routes of its method (0 for no route)
RankOf(m, r) ==
    IF r = 0 THEN 0 ELSE CHOOSE i \in 1..Len(RoutesOf(m)) : RoutesOf(m)[i] = r

\* C21: routes are keyed by method.  A request resolves only to a route
\* registered for its own method, and is not found when no route was
\* registered for its method, whatever was registered for the same path
\* under another method; and PROPFIND behaves as GET does: when the same
\* patterns were registered for both, in the same order, every path has the
\* same outcome under both, the route being the corresponding one.
C21_MethodKeyed ==
    /\ \A q \in Queries :
          /\ Dispatch(q).status = "found" => routes[Dispatch(q).route].method = q[1]
          /\ RoutesOf(q[1]) = <<>> => Dispatch(q).status = "notfound"
    /\ PatternsOf("GET") = PatternsOf("PROPFIND") =>
          \A path \in Paths :
              LET g == Dispatch(<<"GET", path>>)
                  w == Dispatch(<<"PROPFIND", path>>)
              IN /\ g.status = w.status
                 /\ g.params = w.params
                 /\ g.status = "found" =>
                       /\ routes[g.route].method = "GET"
                       /\ routes[w.route].method = "PROPFIND"
                       /\ RankOf("GET", g.route) = RankOf("PROPFIND", w.route)

\* /a/:x is registered for GET and for PROPFIND: /a/5 resolves under each
\* method to that method's route with x=5, and /a/b/5 is found under neither
C21_Witness ==
    /\ Len(routes) = 2
    /\ routes[1] = [method |-> "PROPFIND", pattern |-> <<"/", "a", "/", ":", "x">>]
    /\ routes[2] = [method |-> "GET", pattern |-> <<"/", "a", "/", ":", "x">>]
    /\ Dispatch(<<"PROPFIND", <<"/", "a", "/", "5">>>>).route = 1
    /\ Dispatch(<<"GET", <<"/", "a", "/", "5">>>>).route = 2
    /\ Dispatch(<<"GET", <<"/", "a", "/", "5">>>>).params.map = {<<<<"x">>, <<"5">>>>}
    /\ Dispatch(<<"PROPFIND", <<"/", "a", "/", "b", "/", "5">>>>).status = "notfound"


\* the routes the tree of a method in the published table holds
InTree(m) ==
    {treeCollectRoutes(heap.nodes, Current.trees[m])[i] :
        i \in 1..Len(treeCollectRoutes(heap.nodes, Current.trees[m]))}

\* the routes the exact-match index of a method in the published table holds
InIndex(m) == {kv[2] : kv \in Current.exactRoutes[m]}

\* C29: in the published table, the last route registered for a pattern
\* without a ':' or '*' segment is stored in its method's exact-match index
\* under the pattern and not in the tree, and the last route registered for
\* a pattern with such a segment is stored in its method's tree and not in
\* the index; dispatch takes the index entry of (method, path) when there is
\* one, without parameters, and the result of the tree search only when
\* there is none.
C29_HybridPlacement ==
    /\ \A r \in 1..Len(routes) :
          Latest(r) =>
             IF IsDynamic(routes[r].pattern)
             THEN r \in InTree(routes[r].method) /\ r \notin InIndex(routes[r].method)
             ELSE /\ HasKey(Current.exactRoutes[routes[r].method], routes[r].pattern)
                  /\ Get(Current.exactRoutes[routes[r].method], routes[r].pattern) = r
                  /\ r \notin InTree(routes[r].method)
    /\ \A q \in Queries :
          IF HasKey(Current.exactRoutes[q[1]], q[2])
          THEN /\ Dispatch(q).route = Get(Current.exactRoutes[q[1]], q[2])
               /\ Dispatch(q).params = NilParams
          ELSE IF Current.trees[q[1]] = 0 THEN Dispatch(q).route = 0
          ELSE /\ Dispatch(q).route = treeSearch(heap.nodes, Current.trees[q[1]], q[2]).route
               /\ Dispatch(q).params = treeSearch(heap.nodes, Current.trees[q[1]], q[2]).params


(***************************************************************************)
(* The context pool                                                        *)
(***************************************************************************)
\* the contexts ever created
Contexts == 1..Len(pool.ctxs)

\* the entries of both maps of context i
EntriesOf(i) == pool.ctxs[i].c.PathParams.entries \cup pool.ctxs[i].c.values.entries

\* handler p is serving a request on a context
Serving(p) == pool.req[p].pc \in {"got", "bound", "handled"}

\* a reset step of the owner of context i
ResetStep(i) ==
    /\ pool.ctxs[i].owner # ""
    /\ pool.req[pool.ctxs[i].owner].pc = "handled"
    /\ pool'.req[pool.ctxs[i].owner].pc = "reset"

\* what a reset must make of map before: nil stays nil, a map of at most
\* ResetThreshold entries is the same map, emptied, a larger one is replaced
\* by another, empty map
ResetOutcome(before, after) ==
    /\ after.entries = {}
    /\ IF before = NilMap THEN after = NilMap
       ELSE IF Cardinality(before.entries) <= ResetThreshold THEN after.id = before.id
       ELSE after.id # before.id /\ after.id # 0

\* C22: a context in the pool, and a context a request has just got from
\* it, has an empty path-parameter map and an empty value store; every entry
\* a serving request finds in its context was written during that same use
\* of the context; no context is owned by two requests at once and no
\* context in the pool is still held by a request; and every reset leaves
\* nil maps nil, empties in place a map of at most 8 entries and replaces a
\* larger one by a fresh empty map.
C22_PooledContextsLeakNoState ==
    /\ [](/\ \A i \in Contexts :
               /\ pool.ctxs[i].owner = "" => EntriesOf(i) = {}
               /\ \A e \in EntriesOf(i) : e[2] = pool.ctxs[i].uses
          /\ \A p \in Handlers :
               /\ pool.req[p].pc = "got" => EntriesOf(pool.req[p].ctx) = {}
               /\ pool.req[p].pc # "idle" => pool.ctxs[pool.req[p].ctx].owner = p
               /\ \A q \in Handlers \ {p} :
                     pool.req[p].pc # "idle" /\ pool.req[q].pc # "idle"
                         => pool.req[p].ctx # pool.req[q].ctx
          /\ \A i \in Contexts :
               pool.ctxs[i].owner # "" => pool.req[pool.ctxs[i].owner].ctx = i)
    /\ [][\A i \in Contexts :
             ResetStep(i) =>
                /\ ResetOutcome(pool.ctxs[i].c.PathParams, pool'.ctxs[i].c.PathParams)
                /\ ResetOutcome(pool.ctxs[i].c.values, pool'.ctxs[i].c.values)]_vars

\* a context serves its second request or a later one, after a reset that
\* replaced its oversized parameter map and emptied its value store in
\* place, and the request has written both maps again, while the other
\* handler serves a request on another context
C22_Witness ==
    \E i \in Contexts :
        /\ pool.ctxs[i].uses >= 2
        /\ pool.ctxs[i].owner # ""
        /\ pool.req[pool.ctxs[i].owner].pc = "handled"
        /\ pool.ctxs[i].c.PathParams.id = 2
        /\ pool.ctxs[i].c.PathParams.entries # {}
        /\ pool.ctxs[i].c.values.id = 1
        /\ Cardinality(pool.ctxs[i].c.values.entries) = ResetThreshold
        /\ \E q \in Handlers \ {pool.ctxs[i].owner} : Serving(q)

(***************************************************************************)
(* The token bucket over time                                              *)
(***************************************************************************)
\* the number of allowed requests among the i-th to j-th decisions of ds
AllowedIn(ds, i, j) == Cardinality({n \in i..j : ds[n].ok})

\* C31: among the requests of one key, the number allowed between any two
\* of them (both included) is at most capacity + rate * t, where t is the
\* time in seconds from the first of the two to the second.
C31_SustainedRateBound ==
    \A key \in Keys :
        LET ds == KeyDecisions(key)
        IN \A i \in 1..Len(ds) : \A j \in i..Len(ds) :
              TicksPerSecond * AllowedIn(ds, i, j)
                  <= TicksPerSecond * limiter.capacity
                     + limiter.rate * (ds[j].at - ds[i].at)

\* C32: with a positive rate and a capacity of at least one, a request of a
\* key that comes at least 1/rate seconds after a rejected request of that
\* key (whose bucket was empty then), with only rejected requests of the
\* key in between, is allowed.
C32_RefillByElapsedTime ==
    limiter.rate > 0 /\ limiter.capacity >= 1 =>
      \A key \in Keys :
        LET ds == KeyDecisions(key)
        IN \A i \in 1..Len(ds) : \A j \in (i + 1)..Len(ds) :
              /\ \A n \in i..(j - 1) : ~ds[n].ok
              /\ limiter.rate * (ds[j].at - ds[i].at) >= TicksPerSecond
              => ds[j].ok

\* C33: in a limiter of capacity at least one (every rate of the model is
\* >= 0 and the clock never goes back), after any allow calls and cleanup
\* passes every bucket holds at least 0 and at most capacity tokens.
C33_TokensWithinCapacity ==
    limiter.capacity >= 1 =>
      \A key \in Keys :
          limiter.buckets[key].exists =>
              /\ limiter.buckets[key].tokens >= 0
              /\ limiter.buckets[key].tokens <= limiter.capacity

\* after a cleanup pass, a key that emptied its bucket of capacity two and
\* came back a second later, when three tokens had accrued, holds one token
C33_Witness ==
    /\ limiter.capacity = 2
    /\ limiter.rate = 3
    /\ limiter.passes >= 1
    /\ LET ds == KeyDecisions("k1")
       IN /\ Len(ds) = 3
          /\ ds[2].at = ds[1].at
          /\ ds[3].at = ds[1].at + TicksPerSecond
          /\ ds[3].ok
    /\ limiter.buckets["k1"].tokens = 1

\* the decisions the requests ds[n], ds[n+1], ... get from limiter rl when
\* no bucket is ever removed
RECURSIVE KeptDecisions(_, _, _)
KeptDecisions(rl, ds, n) ==
    IF n > Len(ds) THEN <<>>
    ELSE <<allow(rl, ds[n].key, ds[n].at).ok>>
            \o KeptDecisions(allow(rl, ds[n].key, ds[n].at).limiter, ds, n + 1)

\* C34: in a limiter of capacity at least one, every request gets the
\* decision it would have got had the cleanup loop removed no bucket; in
\* particular eviction never turns a rejection into an allowance.
C34_EvictionTransparent ==
    limiter.capacity >= 1 =>
      \A n \in 1..Len(decisions) :
        decisions[n].ok =
            KeptDecisions(NewRateLimiter(limiter.rate, limiter.capacity), decisions, 1)[n]

\* an allow call has just been decided: the history has one more decision
AllowStep == Len(decisions') = Len(decisions) + 1

\* C35: an allow call for key k changes nothing of the limiter but the
\* bucket of k; a rejected call leaves the token count of k as it was, and
\* the middleware then returns 429 with code rate_limit_exceeded and does
\* not call the next handler.
C35_AllowFrame ==
    [][AllowStep =>
         LET d == decisions'[Len(decisions')]
         IN /\ limiter' = [limiter EXCEPT !.buckets[d.key] = limiter'.buckets[d.key]]
            /\ ~d.ok => /\ limiter.buckets[d.key].exists
                        /\ limiter'.buckets[d.key].tokens = limiter.buckets[d.key].tokens
                        /\ d.out.status = 429
                        /\ d.out.err = "rate_limit_exceeded"
                        /\ d.out.calls = 0]_vars

(***************************************************************************)
(* ShutdownAllRateLimiters                                                 *)
(***************************************************************************)
\* the limiters a ShutdownAllRateLimiters call of p has collected and
\* already closed
ClosedBy(p) ==
    {registry.g[p].limiters[j] :
        j \in {n \in 1..Len(registry.g[p].limiters) : n < registry.g[p].i}}

\* C36: no close of a limiter's channel panics; every limiter a
\* ShutdownAllRateLimiters call found in the registry is closed and out of
\* the registry once the call's Close of it has returned, hence all of them
\* when the call returns; and every ShutdownAllRateLimiters or Close call
\* returns, whatever other such calls run at the same time.
C36_ShutdownAllCloses ==
    /\ [](/\ ~registry.fault
          /\ \A p \in Procs :
                registry.g[p].pc \in {"sa_loop", "idle"} =>
                   \A l \in ClosedBy(p) :
                       /\ registry.limiters[l].done = "closed"
                       /\ ~registry.limiters[l].registered)
    /\ \A p \in Procs : (registry.g[p].pc # "idle") ~> (registry.g[p].pc = "idle")

\* two ShutdownAllRateLimiters calls that overlapped have returned: one had
\* collected both limiters, the other at least one of them, and the registry
\* is empty
C36_Witness ==
    /\ \A p \in Procs : registry.g[p].pc = "idle"
    /\ Len(registry.g["p1"].limiters) = 2
    /\ Len(registry.g["p2"].limiters) >= 1
    /\ registry.g["p1"].i = 3
    /\ InRegistry = {}
    /\ \A l \in LimiterIds : registry.limiters[l].done = "closed"

(***************************************************************************)
(* The end of the cleanup loop                                             *)
(***************************************************************************)
\* C37: once Close has been called on the limiter, and once Shutdown has
\* been called on a router with which the limiter's Close is registered,
\* the cleanup loop of the limiter eventually returns.
C37_CleanupLoopStops ==
    /\ (\E p \in Procs : proc[p].pc = "cl_enter") ~> (limiter.loop = "stopped")
    /\ (/\ \E p \in Procs : proc[p].sd > 0
        /\ \E i \in 1..Len(cleanup.funcs) : cleanup.funcs[i] = "close")
          ~> (limiter.loop = "stopped")

\* the loop has returned after a cleanup pass; the channel was closed once,
\* Shutdown has run and another goroutine's direct Close call has returned
C37_Witness ==
    /\ limiter.loop = "stopped"
    /\ limiter.passes >= 1
    /\ limiter.closes = 1
    /\ cleanup.once = "done"
    /\ \E p \in Procs : proc[p].sd = 0 /\ proc[p].n > 0 /\ proc[p].pc = "idle"

(***************************************************************************)
(* Empty segments                                                          *)
(***************************************************************************)
\* C38: no insertion into the tree ends in a runtime fault, whatever the
\* pattern: with empty segments, with a trailing slash, without a leading
\* slash, or empty.
C38_InsertNeverFaults == ~tr.heap.fault

\* C39: a search never binds a parameter to the empty string: neither the
\* search just made nor a search of any path in the tree as it is returns a
\* route with such a binding.
C39_ParamBindsNonEmpty ==
    /\ tr.last.done /\ tr.last.route # 0 =>
          \A kv \in tr.last.params.map : kv[2] # <<>>
    /\ ~tr.heap.fault =>
          \A path \in EdgePaths :
              Found(path).route # 0 => \A kv \in Found(path).params.map : kv[2] # <<>>

====
